---------------------------- MODULE Spec2Model ----------------------------
(***************************************************************************)
(* claude-simple-memory: the relevance-ranking engine of                   *)
(* plugin/scripts/utils.js (tokenizer, TF-IDF, cosine similarity, ranker)  *)
(* and the hooks that call it.                                             *)
(*                                                                         *)
(* Conventions of the model                                                *)
(*  - a JavaScript string is a sequence of one-character strings; null or  *)
(*    undefined is the sequence Null and a number is <<"number">> followed *)
(*    by the digits String() prints for it;                                *)
(*  - a token is a TLA+ string;                                            *)
(*  - a JavaScript number that is not an integer is a fixed-point integer  *)
(*    with SCALE units to 1.0, and NaN is the value NaN;                   *)
(*  - time is counted in minutes since the epoch.                          *)
(***************************************************************************)
EXTENDS Integers, Sequences, FiniteSets, TLC

\* ------------------------------------------------------------------------
\* Characters and JavaScript values
\* ------------------------------------------------------------------------

LowerSeq == << "a", "b", "c", "d", "e", "f", "g", "h", "i", "j", "k", "l", "m",
               "n", "o", "p", "q", "r", "s", "t", "u", "v", "w", "x", "y", "z" >>

UpperSeq == << "A", "B", "C", "D", "E", "F", "G", "H", "I", "J", "K", "L", "M",
               "N", "O", "P", "Q", "R", "S", "T", "U", "V", "W", "X", "Y", "Z" >>

Lower == { LowerSeq[i] : i \in 1..26 }

Upper == { UpperSeq[i] : i \in 1..26 }

Digit == { "0", "1", "2", "3", "4", "5", "6", "7", "8", "9" }

\* \w of a JavaScript regular expression
WordChar == Lower \cup Upper \cup Digit \cup { "_" }

\* the range \uAC00-\uD7A3 of Hangul syllables (the members a text here can
\* hold), each one character, written by its code point
Hangul ==
    { "U+AC00", "U+C5D0", "U+C11C", "U+D55C", "U+AE00", "U+D7A3",
      "U+C791", "U+C5C5", "U+D30C", "U+C77C", "U+BA85", "U+B839", "U+BD80",
      "U+B7EC", "U+BC1C", "U+C0DD", "U+C9C8", "U+BB38", "U+C678", "U+AC1C" }

\* \s of a JavaScript regular expression (the members a text here can hold)
SpaceChar == { " ", "\t", "\n" }

\* null / undefined
Null == << "null" >>

\* a number n, printed by String(n) as the digits ds
Num(ds) == << "number" >> \o ds

IsNumber(v) == Len(v) > 0 /\ v[1] = "number"

\* !v of JavaScript, for v a string, null or a non-zero number
Falsy(v) == v = Null \/ v = << >>

\* String(v)
ToStr(v) == IF IsNumber(v) THEN Tail(v) ELSE v

\* c.toLowerCase()
ToLowerChar(c) ==
    IF c \in Upper THEN LowerSeq[CHOOSE i \in 1..26 : UpperSeq[i] = c] ELSE c

\* s.toLowerCase()
ToLowerCase(s) == [ i \in 1..Len(s) |-> ToLowerChar(s[i]) ]

RECURSIVE Join(_)
\* the token whose characters are cs
Join(cs) == IF cs = << >> THEN "" ELSE Head(cs) \o Join(Tail(cs))

RECURSIVE Flatten(_)
\* the concatenation of a sequence of sequences
Flatten(ss) == IF ss = << >> THEN << >> ELSE Head(ss) \o Flatten(Tail(ss))

ToSet(s) == { s[i] : i \in 1..Len(s) }

\* ------------------------------------------------------------------------
\* Tokenizer (utils.js, lines 10-77)
\* ------------------------------------------------------------------------

STOPWORDS ==
    { "the", "a", "an", "is", "are", "was", "were", "be", "been", "being",
      "have", "has", "had", "do", "does", "did", "will", "would", "could", "should",
      "may", "might", "must", "shall", "can", "need", "dare", "ought", "used",
      "to", "of", "in", "for", "on", "with", "at", "by", "from", "as", "into",
      "through", "during", "before", "after", "above", "below", "between",
      "and", "but", "or", "nor", "so", "yet", "both", "either", "neither",
      "not", "only", "own", "same", "than", "too", "very", "just",
      "this", "that", "these", "those", "it", "its",
      "const", "let", "var", "function", "return", "import", "export",
      "true", "false", "null", "undefined", "new", "class", "extends",
      "async", "await", "try", "catch", "if", "else", "while",
      "U+C5D0U+C11C" }

\* .replace(/[^\w\s\uAC00-\uD7A3]/g, ' ')   (of the Hangul stopwords, the
\* one of two syllables the model's alphabet can spell is in STOPWORDS)
ReplaceNonWord(s) ==
    [ i \in 1..Len(s) |->
        IF s[i] \in WordChar \cup SpaceChar \cup Hangul THEN s[i] ELSE " " ]

RECURSIVE CollapseFrom(_, _)
CollapseFrom(s, i) ==
    IF i > Len(s) THEN << >>
    ELSE IF s[i] \in SpaceChar
         THEN IF i > 1 /\ s[i - 1] \in SpaceChar
              THEN CollapseFrom(s, i + 1)
              ELSE << " " >> \o CollapseFrom(s, i + 1)
         ELSE << s[i] >> \o CollapseFrom(s, i + 1)

\* .replace(/\s+/g, ' ')
CollapseSpaces(s) == CollapseFrom(s, 1)

\* .trim()
Trim(s) ==
    LET idx == { i \in 1..Len(s) : s[i] \notin SpaceChar }
    IN  IF idx = { } THEN << >>
        ELSE SubSeq(s, CHOOSE i \in idx : \A j \in idx : i <= j,
                       CHOOSE i \in idx : \A j \in idx : i >= j)

RECURSIVE SplitFrom(_, _, _, _)
SplitFrom(s, i, cur, seps) ==
    IF i > Len(s) THEN << cur >>
    ELSE IF s[i] \in seps
         THEN << cur >> \o SplitFrom(s, i + 1, << >>, seps)
         ELSE SplitFrom(s, i + 1, Append(cur, s[i]), seps)

\* s.split(c) for a one-character separator c: "" splits into [""]
Split(s, c) == SplitFrom(s, 1, << >>, { c })

RECURSIVE SplitRunsFrom(_, _, _, _)
SplitRunsFrom(s, i, cur, seps) ==
    IF i > Len(s) THEN << cur >>
    ELSE IF s[i] \in seps
         THEN IF i > 1 /\ s[i - 1] \in seps
              THEN SplitRunsFrom(s, i + 1, cur, seps)
              ELSE << cur >> \o SplitRunsFrom(s, i + 1, << >>, seps)
         ELSE SplitRunsFrom(s, i + 1, Append(cur, s[i]), seps)

\* s.split(/[seps]+/): a run of separators splits once
SplitRuns(s, seps) == SplitRunsFrom(s, 1, << >>, seps)

\* /^\d+$/.test(word)
AllDigits(word) == Len(word) > 0 /\ \A i \in 1..Len(word) : word[i] \in Digit

\* the filter of extractKeywords, on a word given by its characters
KeepKeyword(word) ==
    /\ ~ (Len(word) < 2)
    /\ Join(word) \notin STOPWORDS
    /\ ~ AllDigits(word)

\* the words extractKeywords keeps, each by its characters
KeywordWords(text) ==
    IF Falsy(text) THEN << >>
    ELSE LET normalized == Trim(CollapseSpaces(ReplaceNonWord(ToLowerCase(ToStr(text)))))
             words      == Split(normalized, " ")
         IN  SelectSeq(words, KeepKeyword)

\* extractKeywords(text): the tokens of a free text
extractKeywords(text) ==
    LET keywords == KeywordWords(text)
    IN  [ i \in 1..Len(keywords) |-> Join(keywords[i]) ]

\* part.replace(/\.[^.]+$/, ''): drops the last extension
StripExtension(part) ==
    LET dots == { i \in 1..Len(part) : part[i] = "." }
    IN  IF dots = { } THEN part
        ELSE LET k == CHOOSE i \in dots : \A j \in dots : i >= j
             IN  IF k < Len(part) THEN SubSeq(part, 1, k - 1) ELSE part

RECURSIVE CamelFrom(_, _)
CamelFrom(part, i) ==
    IF i > Len(part) THEN << >>
    ELSE IF i < Len(part) /\ part[i] \in Lower /\ part[i + 1] \in Upper
         THEN << part[i], " " >> \o CamelFrom(part, i + 1)
         ELSE << part[i] >> \o CamelFrom(part, i + 1)

\* part.replace(/([a-z])([A-Z])/g, '$1 $2').toLowerCase()
CamelSplit(part) == ToLowerCase(CamelFrom(part, 1))

\* a bug KeepPathWord could have: stopwords pass
KeepPathWordAny(w) == Len(w) > 1

\* the filter of extractPathKeywords, on a word given by its characters
KeepPathWord(w) == Len(w) > 1 /\ Join(w) \notin STOPWORDS

\* the words one path segment gives, each by its characters
PartWords(part) ==
    SelectSeq(SplitRuns(CamelSplit(part), { "-", "_" } \cup SpaceChar), KeepPathWord)

KeepPart(part) == part # << >> /\ Len(part) > 1

\* the words extractPathKeywords keeps, each by its characters
PathWords(filePath) ==
    IF Falsy(filePath) THEN << >>
    ELSE LET slashed  == [ i \in 1..Len(filePath) |->
                             IF filePath[i] = "\\" THEN "/" ELSE filePath[i] ]
             segments == Split(slashed, "/")
             stripped == [ i \in 1..Len(segments) |-> StripExtension(segments[i]) ]
             parts    == SelectSeq(stripped, KeepPart)
         IN  Flatten([ i \in 1..Len(parts) |-> PartWords(parts[i]) ])

\* extractPathKeywords(filePath): the tokens of a path (filePath a string or
\* null; a number has no .replace and raises a TypeError, see PathThrows)
extractPathKeywords(filePath) ==
    LET keywords == PathWords(filePath)
    IN  [ i \in 1..Len(keywords) |-> Join(keywords[i]) ]

\* extractPathKeywords(filePath) raises: filePath.replace is not a function
PathThrows(filePath) == ~ Falsy(filePath) /\ IsNumber(filePath)

\* ------------------------------------------------------------------------
\* Numbers
\* ------------------------------------------------------------------------

\* fixed point: SCALE units are 1.0
SCALE == 10 ^ 3

\* the finer scale the series below are summed at
FINE == 10 * SCALE

\* NaN, a value no computation on numbers yields
NaN == 2 ^ 30

FAdd(x, y) == IF x = NaN \/ y = NaN THEN NaN ELSE x + y

\* x * y for fixed-point x and y, kept at SCALE * SCALE
FMulRaw(x, y) == IF x = NaN \/ y = NaN THEN NaN ELSE x * y

\* x * c / SCALE for a fixed-point x and a fixed-point constant c
FScale(x, c) == IF x = NaN THEN NaN ELSE (x * c) \div SCALE

\* Math.min(x, y): NaN when either argument is NaN
FMin(x, y) == IF x = NaN \/ y = NaN THEN NaN ELSE IF x < y THEN x ELSE y

\* x || 0 for a number x: NaN is falsy
OrZero(x) == IF x = NaN THEN 0 ELSE x

Max(S) == CHOOSE x \in S : \A y \in S : x >= y

RECURSIVE AtanhSeries(_, _, _)
\* z + z^3/3 + z^5/5 + ... at FINE, from the term z^(2k+1)
AtanhSeries(term, k, z2) ==
    IF term = 0 THEN 0
    ELSE term \div (2 * k + 1) + AtanhSeries((term * z2) \div FINE, k + 1, z2)

\* Math.log(a / b) for integers a >= b >= 1, at SCALE (rounded)
LnRatio(a, b) ==
    LET z  == ((a - b) * FINE) \div (a + b)
        z2 == (z * z) \div FINE
    IN  (2 * AtanhSeries(z, 0, z2) + 5) \div 10

RECURSIVE ExpSeries(_, _, _)
\* 1 - f + f^2/2! - f^3/3! + ... at FINE for 0 <= f <= 1, from the term f^k/k!
ExpSeries(term, k, f) ==
    IF term = 0 THEN 0
    ELSE term - ExpSeries(((term * f) \div FINE) \div (k + 1), k + 1, f)

RECURSIVE TimesEInv(_, _)
\* r * exp(-n) at FINE
TimesEInv(r, n) ==
    IF n = 0 \/ r = 0 THEN r
    ELSE TimesEInv((r * ExpSeries(FINE, 0, FINE) + FINE \div 2) \div FINE, n - 1)

\* Math.exp(-x) is 0 for x >= ExpUnderflow and positive below it
ExpUnderflow == 746

\* Math.exp(-(num / den)) for integers num >= 0, den > 0, at SCALE (rounded;
\* a positive result below the resolution is kept positive, as 1 unit)
ExpNeg(num, den) ==
    LET n == num \div den
        f == ((num % den) * FINE) \div den
        r == (TimesEInv(ExpSeries(FINE, 0, f), n) + 5) \div 10
    IN  IF n >= ExpUnderflow THEN 0 ELSE IF r < 1 THEN 1 ELSE r

RECURSIVE IsqrtIn(_, _, _)
IsqrtIn(n, lo, hi) ==
    IF lo >= hi THEN lo
    ELSE LET mid == (lo + hi + 1) \div 2
         IN  IF mid * mid <= n THEN IsqrtIn(n, mid, hi) ELSE IsqrtIn(n, lo, mid - 1)

\* floor(Math.sqrt(n)) for an integer 0 <= n < 2^31
Isqrt(n) == IsqrtIn(n, 0, 46340)

RECURSIVE SumOver(_, _)
\* the sum of f[w] over w in S, NaN if any f[w] is
SumOver(S, f) ==
    IF S = { } THEN 0
    ELSE LET w == CHOOSE x \in S : TRUE
         IN  FAdd(f[w], SumOver(S \ { w }, f))

\* ------------------------------------------------------------------------
\* TF-IDF (utils.js, lines 84-142)
\* ------------------------------------------------------------------------

\* tf, df and tfidf are plain objects ({}), so a token that names a property
\* of Object.prototype is not "absent" from them: obj["constructor"] is the
\* function Object and obj["__proto__"] is Object.prototype, both truthy
InheritedFunction == "constructor"

ProtoAccessor == "__proto__"

Count(keywords, word) == Cardinality({ i \in 1..Len(keywords) : keywords[i] = word })

\* calculateTF(keywords): raw count / largest raw count.
\*  - tf["constructor"] starts from Object + 1, a string: Math.max over the
\*    values is then NaN and every entry of the vector is x / NaN = NaN;
\*  - tf["__proto__"] = <string> is ignored by the setter: no entry is made.
calculateTF(keywords) ==
    LET words   == ToSet(keywords) \ { ProtoAccessor }
        maxFreq == Max({ Count(keywords, w) : w \in words } \cup { 1 })
    IN  [ w \in words |->
            IF InheritedFunction \in words THEN NaN
            ELSE (Count(keywords, w) * SCALE) \div maxFreq ]

\* calculateDF(documents): in how many documents each token occurs.
\*  - df["constructor"] starts from Object + 1 and stays a string, which
\*    reads as NaN wherever a number is wanted;
\*  - df["__proto__"] = <string> is ignored by the setter: no entry is made.
calculateDF(documents) ==
    LET words == UNION { ToSet(documents[i]) : i \in 1..Len(documents) }
    IN  [ w \in words \ { ProtoAccessor } |->
            IF w = InheritedFunction THEN NaN
            ELSE Cardinality({ i \in 1..Len(documents) : w \in ToSet(documents[i]) }) ]

\* Math.log((totalDocs + 1) / ((df[word] || 0) + 1)) + 1
Idf(word, df, totalDocs) ==
    IF word = InheritedFunction THEN NaN
    ELSE LET d == IF word \in DOMAIN df THEN df[word] ELSE 0
         IN  IF totalDocs + 1 >= d + 1
             THEN LnRatio(totalDocs + 1, d + 1) + SCALE
             ELSE SCALE - LnRatio(d + 1, totalDocs + 1)

\* calculateTFIDF(keywords, df, totalDocs)
calculateTFIDF(keywords, df, totalDocs) ==
    LET tf == calculateTF(keywords)
    IN  [ w \in DOMAIN tf |->
            IF tf[w] = NaN \/ Idf(w, df, totalDocs) = NaN THEN NaN
            ELSE (tf[w] * Idf(w, df, totalDocs)) \div SCALE ]

\* vec[word] || 0, with the inherited property where vec has no own entry
\* (anything multiplied by a function is NaN)
Component(vec, word) ==
    IF word \in DOMAIN vec THEN OrZero(vec[word])
    ELSE IF word = InheritedFunction THEN NaN
    ELSE 0

\* a bug cosineSimilarity could have: no test for a norm of 0, so that 0 / 0
\* is returned
cosineSimilarityUnguarded(vec1, vec2) ==
    LET allWords   == DOMAIN vec1 \cup DOMAIN vec2
        dotProduct == SumOver(allWords, [ w \in allWords |->
                          FMulRaw(Component(vec1, w), Component(vec2, w)) ])
        norm1      == SumOver(allWords, [ w \in allWords |->
                          FMulRaw(Component(vec1, w), Component(vec1, w)) ])
        norm2      == SumOver(allWords, [ w \in allWords |->
                          FMulRaw(Component(vec2, w), Component(vec2, w)) ])
    IN  IF dotProduct = NaN \/ norm1 = NaN \/ norm2 = NaN THEN NaN
        ELSE IF Isqrt(norm1) = 0 \/ Isqrt(norm2) = 0 THEN NaN
        ELSE ((dotProduct \div Isqrt(norm1)) * SCALE) \div Isqrt(norm2)

\* cosineSimilarity(vec1, vec2), at SCALE; the sums are kept at SCALE * SCALE
cosineSimilarity(vec1, vec2) ==
    LET allWords   == DOMAIN vec1 \cup DOMAIN vec2
        dotProduct == SumOver(allWords, [ w \in allWords |->
                          FMulRaw(Component(vec1, w), Component(vec2, w)) ])
        norm1      == SumOver(allWords, [ w \in allWords |->
                          FMulRaw(Component(vec1, w), Component(vec1, w)) ])
        norm2      == SumOver(allWords, [ w \in allWords |->
                          FMulRaw(Component(vec2, w), Component(vec2, w)) ])
    IN  IF norm1 = 0 \/ norm2 = 0 THEN 0
        ELSE IF dotProduct = NaN \/ norm1 = NaN \/ norm2 = NaN THEN NaN
        ELSE ((dotProduct \div Isqrt(norm1)) * SCALE) \div Isqrt(norm2)

\* ------------------------------------------------------------------------
\* Session records
\* ------------------------------------------------------------------------

\* A session as memories/<project>.json stores it, or null.
\*   date           new Date(session.date).getTime() in minutes: NaN for a
\*                  missing or unparseable date, 0 for null (the epoch)
\*   summary        a text
\*   conversations  kind "absent", "array" (items: records with a message)
\*                  or "string" (a non-empty string: it has a length and no
\*                  forEach)
\*   observations   kind "absent", "array" (items: observations) or "object"
\*                  (a non-array object: truthy, no forEach)
Session(date, summary, conversations, observations) ==
    [ kind |-> "record", date |-> date, summary |-> summary,
      conversations |-> conversations, observations |-> observations ]

Absent == [ kind |-> "absent", items |-> << >> ]

Array(items) == [ kind |-> "array", items |-> items ]

NotAnArray(kind) == [ kind |-> kind, items |-> << >> ]

NullSession == [ kind |-> "null", date |-> NaN, summary |-> Null,
                 conversations |-> Absent, observations |-> Absent ]

Conversation(message) == [ message |-> message ]

\* an observation: obs.summary, obs.details?.file, obs.details?.command and
\* obs.context?.lastUserMessage
Observation(summary, file, command, lastUserMessage) ==
    [ summary |-> summary, file |-> file, command |-> command,
      lastUserMessage |-> lastUserMessage ]

\* ------------------------------------------------------------------------
\* Relevance ranker (utils.js, lines 149-246)
\* ------------------------------------------------------------------------

\* `if (text) keywords.push(...extractKeywords(text))`
KeywordsIf(text) == IF Falsy(text) THEN << >> ELSE extractKeywords(text)

\* session.conversations && session.conversations.length > 0
HasConversations(session) ==
    \/ session.conversations.kind = "array" /\ Len(session.conversations.items) > 0
    \/ session.conversations.kind = "string"

\* a bug ObservationKeywords could have: the user's last message is left out
ObservationKeywordsNoMessage(obs) ==
    extractKeywords(obs.summary)
      \o (IF Falsy(obs.file) THEN << >> ELSE extractPathKeywords(obs.file))
      \o KeywordsIf(obs.command)

\* the tokens one observation contributes, in the order they are pushed
ObservationKeywords(obs) ==
    extractKeywords(obs.summary)
      \o (IF Falsy(obs.file) THEN << >> ELSE extractPathKeywords(obs.file))
      \o KeywordsIf(obs.command)
      \o KeywordsIf(obs.lastUserMessage)

\* extractSessionKeywords(session) raises a TypeError
SessionThrows(session) ==
    \/ session.kind = "null"
    \/ session.conversations.kind = "string"
    \/ session.observations.kind = "object"
    \/ /\ session.observations.kind = "array"
       /\ \E i \in 1..Len(session.observations.items) :
              PathThrows(session.observations.items[i].file)

\* extractSessionKeywords(session), for a session it does not raise on
extractSessionKeywords(session) ==
    LET convs == session.conversations.items
        obs   == session.observations.items
    IN  KeywordsIf(session.summary)
          \o (IF HasConversations(session)
              THEN Flatten([ i \in 1..Len(convs) |-> KeywordsIf(convs[i].message) ])
              ELSE << >>)
          \o (IF session.observations.kind = "array"
              THEN Flatten([ i \in 1..Len(obs) |-> ObservationKeywords(obs[i]) ])
              ELSE << >>)

\* the context document: the tokens of cwd and of every recent file
ContextKeywords(currentContext) ==
    (IF Falsy(currentContext.cwd) THEN << >>
     ELSE extractPathKeywords(currentContext.cwd))
      \o Flatten([ i \in 1..Len(currentContext.recentFiles) |->
                     extractPathKeywords(currentContext.recentFiles[i]) ])

ContextThrows(currentContext) ==
    \/ PathThrows(currentContext.cwd)
    \/ \E i \in 1..Len(currentContext.recentFiles) :
           PathThrows(currentContext.recentFiles[i])

DayMinutes == 24 * 60

\* a bug TimeWeight could have: the linear branch taken at 24 hours too
TimeWeightInclusive(now, date) ==
    IF date = NaN THEN NaN
    ELSE LET age == now - date
         IN  IF age <= DayMinutes
             THEN SCALE - ((age * SCALE) \div (2 * DayMinutes))
             ELSE ExpNeg(age, 14 * DayMinutes)

\* the two-regime decay of lines 217-226, for a session aged `age` minutes;
\* both calls of Date.now() read the same minute. The linear branch is
\* rounded up to the next unit, so that a value above 0.5 stays above it.
TimeWeight(now, date) ==
    IF date = NaN THEN NaN
    ELSE LET age == now - date
         IN  IF age < DayMinutes
             THEN SCALE - ((age * SCALE) \div (2 * DayMinutes))
             ELSE ExpNeg(age, 14 * DayMinutes)

SimilarityShare == (40 * SCALE) \div 100

TimeShare == (45 * SCALE) \div 100

\* a bug ConversationBonus could have: the list is not asked for its length
ConversationBonusAnyList(session) ==
    IF session.conversations.kind # "absent" THEN (15 * SCALE) \div 100 ELSE 0

\* a bug ConversationBonus could have: another constant
ConversationBonusTenth(session) ==
    IF HasConversations(session) THEN (10 * SCALE) \div 100 ELSE 0

\* conversationBonus of line 230
ConversationBonus(session) ==
    IF HasConversations(session) THEN (15 * SCALE) \div 100 ELSE 0

\* a bug FinalScore could have: the bonus weighted like the other two terms
FinalScoreScaledBonus(similarity, timeWeight, conversationBonus) ==
    FAdd(FAdd(FScale(similarity, SimilarityShare), FScale(timeWeight, TimeShare)),
         FScale(conversationBonus, (15 * SCALE) \div 100))

\* a bug FinalScore could have: the bonus is left out
FinalScoreNoBonus(similarity, timeWeight, conversationBonus) ==
    FAdd(FScale(similarity, SimilarityShare), FScale(timeWeight, TimeShare))

\* finalScore of line 233
FinalScore(similarity, timeWeight, conversationBonus) ==
    FAdd(FAdd(FScale(similarity, SimilarityShare), FScale(timeWeight, TimeShare)),
         conversationBonus)

\* a bug Clamp could have: the score is not clamped
ClampOff(finalScore) == finalScore

\* Math.min(finalScore, 1.0) of line 240
Clamp(finalScore) == FMin(finalScore, SCALE)

\* the element scores.map builds for sessions[index]; idx (the position in
\* the input) and finalScore (the local of line 233) are not fields of the
\* program's object
Score(session, index, keywords, contextTFIDF, df, totalDocs, now) ==
    LET similarity == cosineSimilarity(contextTFIDF,
                                       calculateTFIDF(keywords, df, totalDocs))
        timeWeight == TimeWeight(now, session.date)
        bonus      == ConversationBonus(session)
    IN  [ idx |-> index, session |-> session, similarity |-> similarity,
          timeWeight |-> timeWeight, conversationBonus |-> bonus,
          finalScore |-> FinalScore(similarity, timeWeight, bonus),
          score |-> Clamp(FinalScore(similarity, timeWeight, bonus)) ]

\* (a, b) => b.score - a.score; sort reads a NaN result as +0
Compare(a, b) == IF a.score = NaN \/ b.score = NaN THEN 0 ELSE b.score - a.score

RECURSIVE InsertSorted(_, _)
\* x put into the sorted list, behind every element it does not precede
InsertSorted(sorted, x) ==
    IF sorted = << >> THEN << x >>
    ELSE LET last == sorted[Len(sorted)]
         IN  IF Compare(x, last) < 0
             THEN Append(InsertSorted(SubSeq(sorted, 1, Len(sorted) - 1), x), last)
             ELSE Append(sorted, x)

RECURSIVE StableSort(_, _)
StableSort(scores, n) ==
    IF n = 0 THEN << >> ELSE InsertSorted(StableSort(scores, n - 1), scores[n])

\* the comparator orders the list consistently: no NaN score among
\* different scores
Consistent(scores) ==
    \/ \A i \in 1..Len(scores) : scores[i].score # NaN
    \/ \A i, j \in 1..Len(scores) :
           scores[i].score # NaN /\ scores[j].score # NaN
             => scores[i].score = scores[j].score

IndexPermutations(n) ==
    { p \in [ 1..n -> 1..n ] : \A i, j \in 1..n : p[i] = p[j] => i = j }

\* scores.sort(...): the stable sort, and any order at all when the
\* comparator is inconsistent (the order is then implementation-defined)
SortOutcomes(scores) ==
    IF Consistent(scores) THEN { StableSort(scores, Len(scores)) }
    ELSE { [ i \in 1..Len(scores) |-> scores[p[i]] ] : p \in IndexPermutations(Len(scores)) }

\* the outcomes of a call: the list returned, or a TypeError. documents is
\* sessionKeywordsList, the local of the call that holds each session's
\* token sequence, in input order; df and totalDocs are the locals of the
\* same names.
Returned(list, documents, df, totalDocs) ==
    [ status |-> "returned", list |-> list, documents |-> documents,
      df |-> df, totalDocs |-> totalDocs ]

Threw == [ status |-> "threw", list |-> << >>, documents |-> << >>,
           df |-> << >>, totalDocs |-> 0 ]

\* lines 190-245 of calculateRelevanceScores, for a corpus that is not empty
ScoreAll(currentContext, sessions, now) ==
    IF ContextThrows(currentContext) THEN { Threw }
    ELSE IF \E i \in 1..Len(sessions.items) : SessionThrows(sessions.items[i])
         THEN { Threw }
    ELSE LET items               == sessions.items
             contextKeywords     == ContextKeywords(currentContext)
             sessionKeywordsList == [ i \in 1..Len(items) |->
                                        extractSessionKeywords(items[i]) ]
             df        == calculateDF(<< contextKeywords >> \o sessionKeywordsList)
             totalDocs == Len(items) + 1
             contextTFIDF == calculateTFIDF(contextKeywords, df, totalDocs)
             scores    == [ i \in 1..Len(items) |->
                              Score(items[i], i, sessionKeywordsList[i],
                                    contextTFIDF, df, totalDocs, now) ]
         IN  { Returned(list, sessionKeywordsList, df, totalDocs) :
                 list \in SortOutcomes(scores) }

\* !sessions || sessions.length === 0
NoSessions(sessions) == sessions.kind = "absent" \/ Len(sessions.items) = 0

\* a bug calculateRelevanceScores could have: the corpus is asked for its
\* length after the context was tokenized
calculateRelevanceScoresLateGuard(currentContext, sessions, now) ==
    IF ContextThrows(currentContext) THEN { Threw }
    ELSE IF NoSessions(sessions) THEN { Returned(<< >>, << >>, << >>, 0) }
    ELSE ScoreAll(currentContext, sessions, now)

\* calculateRelevanceScores(currentContext, sessions) called at `now`: the
\* outcomes it can have. sessions is Absent (undefined) or an Array.
calculateRelevanceScores(currentContext, sessions, now) ==
    IF NoSessions(sessions) THEN { Returned(<< >>, << >>, << >>, 0) }
    ELSE ScoreAll(currentContext, sessions, now)

\* ------------------------------------------------------------------------
\* The inputs of the model
\* ------------------------------------------------------------------------

\* "/home/user/projects/auth-service"  (the working directory of the hook)
CwdAuth ==
    << "/", "h", "o", "m", "e", "/", "u", "s", "e", "r", "/", "p", "r", "o",
       "j", "e", "c", "t", "s", "/", "a", "u", "t", "h", "-", "s", "e", "r",
       "v", "i", "c", "e" >>

\* "Auth service: projects of the user home"  (a summary with the tokens of CwdAuth)
TextAuth ==
    << "A", "u", "t", "h", " ", "s", "e", "r", "v", "i", "c", "e", ":", " ",
       "p", "r", "o", "j", "e", "c", "t", "s", " ", "o", "f", " ", "t", "h",
       "e", " ", "u", "s", "e", "r", " ", "h", "o", "m", "e" >>

\* "y"  (a message without a token)
TextYes ==
    << "y" >>

\* "implemented JWT refresh token logic"
TextJwt ==
    << "i", "m", "p", "l", "e", "m", "e", "n", "t", "e", "d", " ", "J", "W",
       "T", " ", "r", "e", "f", "r", "e", "s", "h", " ", "t", "o", "k", "e",
       "n", " ", "l", "o", "g", "i", "c" >>

\* "fixed CSS layout bug"
TextCss ==
    << "f", "i", "x", "e", "d", " ", "C", "S", "S", " ", "l", "a", "y", "o",
       "u", "t", " ", "b", "u", "g" >>

\* "auth service login flow"
TextLogin ==
    << "a", "u", "t", "h", " ", "s", "e", "r", "v", "i", "c", "e", " ", "l",
       "o", "g", "i", "n", " ", "f", "l", "o", "w" >>

\* "refactored auth service login flow"
TextRefactored ==
    << "r", "e", "f", "a", "c", "t", "o", "r", "e", "d", " " >> \o TextLogin

\* "Edited login.js"
TextEdited ==
    << "E", "d", "i", "t", "e", "d", " ", "l", "o", "g", "i", "n", ".", "j",
       "s" >>

\* "src/auth/handleUserLogin.js"
PathLogin ==
    << "s", "r", "c", "/", "a", "u", "t", "h", "/", "h", "a", "n", "d", "l",
       "e", "U", "s", "e", "r", "L", "o", "g", "i", "n", ".", "j", "s" >>

\* "npm test"
TextNpm ==
    << "n", "p", "m", " ", "t", "e", "s", "t" >>

\* "refactor the session store"
TextWhy ==
    << "r", "e", "f", "a", "c", "t", "o", "r", " ", "t", "h", "e", " ", "s",
       "e", "s", "s", "i", "o", "n", " ", "s", "t", "o", "r", "e" >>

\* "constructor __proto__ bug"  (two tokens that name properties of
\* Object.prototype)
TextConstructor ==
    << "c", "o", "n", "s", "t", "r", "u", "c", "t", "o", "r", " ", "_", "_",
       "p", "r", "o", "t", "o", "_", "_", " ", "b", "u", "g" >>

\* "API_v2: fix 42 bugs <U+C5D0><U+C11C> <U+D55C><U+AE00> X"  (digits, a
\* Hangul stopword, a Hangul word, a one-letter word)
TextMixed ==
    << "A", "P", "I", "_", "v", "2", ":", " ", "f", "i", "x", " ", "4", "2",
       " ", "b", "u", "g", "s", " ", "U+C5D0", "U+C11C", " ", "U+D55C",
       "U+AE00", " ", "X" >>

\* "a.b.c/2024/.git"  (a dotted directory, a year, a dot directory)
PathDotted ==
    << "a", ".", "b", ".", "c", "/", "2", "0", "2", "4", "/", ".", "g", "i",
       "t" >>

\* "C:\my_-app\The\x"  (a Windows path)
PathWindows ==
    << "C", ":", "\\", "m", "y", "_", "-", "a", "p", "p", "\\", "T", "h", "e",
       "\\", "x" >>

\* the clock when the model starts, in minutes since the epoch
Now0 == 29900000

\* how many minutes the clock advances
MaxTick == 2

\* how many sessions a corpus holds
MaxCorpus == 2

\* stamped an hour after Now0 (the writer's clock runs ahead), the text of
\* the context, a conversation without a token
SessionAhead ==
    Session(Now0 + 60, TextAuth, Array(<< Conversation(TextYes) >>), Absent)

\* no date field
SessionUndated == Session(NaN, TextJwt, Absent, Absent)

\* no date field either, and a conversation without a token
SessionUndatedQuiet ==
    Session(NaN, TextJwt, Array(<< Conversation(TextYes) >>), Absent)

\* date: null, no summary, no conversation and an observation without a
\* text
SessionEpoch ==
    Session(0, Null, Array(<< >>), Array(<< Observation(Null, Null, Null, Null) >>))

\* one minute short of 24 hours old at Now0; an empty conversations list
SessionDay == Session(Now0 - DayMinutes + 1, TextJwt, Array(<< >>), Absent)

\* written at Now0 by the Stop hook from one prompt and one observation
SessionNow ==
    Session(Now0, TextLogin, Array(<< Conversation(TextWhy) >>),
            Array(<< Observation(TextEdited, PathLogin, TextNpm, TextWhy) >>))

\* 14 days old at Now0, and the same session with conversations
SessionOld == Session(Now0 - 14 * DayMinutes, TextCss, Absent, Absent)

SessionOldTalk ==
    Session(Now0 - 14 * DayMinutes, TextCss,
            Array(<< Conversation(TextLogin) >>), Absent)

SessionOldQuiet ==
    Session(Now0 - 14 * DayMinutes, TextCss,
            Array(<< Conversation(TextYes), Conversation(Null) >>), Absent)

\* 14 days old as well, about a constructor
SessionConstructor ==
    Session(Now0 - 14 * DayMinutes, TextConstructor, Absent, Absent)

\* records a hand-edited or damaged memory file can hold
SessionBadFile ==
    Session(Now0, TextCss, Absent,
            Array(<< Observation(TextEdited, Num(<< "4", "2" >>), Null, Null) >>))

SessionBadConversations == Session(Now0, TextCss, NotAnArray("string"), Absent)

SessionBadObservations == Session(Now0, TextCss, Absent, NotAnArray("object"))

SessionPool ==
    { SessionAhead, SessionUndated, SessionUndatedQuiet, SessionEpoch, SessionDay, SessionNow,
      SessionOld, SessionOldTalk, SessionOldQuiet, SessionConstructor,
      NullSession, SessionBadFile, SessionBadConversations, SessionBadObservations }

Context(cwd) == [ cwd |-> cwd, recentFiles |-> << >> ]

ContextPool == { Context(CwdAuth), Context(Num(<< "7" >>)) }

\* ------------------------------------------------------------------------
\* The ranker under its callers
\* ------------------------------------------------------------------------

VARIABLES
    clock,      \* Date.now(), in minutes
    context,    \* the currentContext of the next call
    corpus,     \* the sessions of the next call: Absent or an Array
    ranked,     \* the last call: its arguments, its time and its outcome
    args,       \* a direct call of an export of utils.js: function, arguments
    result,     \* and what the call gave
    hook,       \* the last run of a hook script: what it read and printed
    buffer,     \* the file buffer.json
    memories,   \* the file memories/<project>.json of the current project
    running,    \* the hook processes that have read a file and not yet exited
    written     \* the entries saved to buffer.json by hooks that reported success

vars ==
    << clock, context, corpus, ranked, args, result, hook, buffer, memories,
       running, written >>

NoArgs == [ fn |-> "none", a |-> << >>, b |-> << >> ]

NoResult == [ done |-> FALSE, threw |-> FALSE, value |-> << >>, words |-> << >> ]

\* no export is called directly
LibraryIdle == args = NoArgs /\ result = NoResult

\* buffer.json does not exist
NoBuffer == [ kind |-> "missing", observations |-> << >>, conversations |-> << >> ]

\* no hook has run: stdout is what the run printed, ranking and relevant
\* are rankedSessions and relevantSessions of the context hook, tool and
\* before are the tool the observation hook was run for and the buffer file
\* it found
NoHook ==
    [ name |-> "none", stdout |-> "none", ranking |-> << >>, relevant |-> << >>,
      tool |-> "none", before |-> NoBuffer ]

\* memories/<project>.json does not exist
NoMemories == [ kind |-> "missing", sessions |-> << >>, keywords |-> << >> ]

\* no hook process is between its read and its exit
NoneRunning == << >>

\* no hook has saved an entry
NoneWritten == [ observations |-> { }, conversations |-> { } ]

\* no hook has run or runs, and the data directory is empty
HooksIdle ==
    /\ hook = NoHook
    /\ buffer = NoBuffer
    /\ memories = NoMemories
    /\ running = NoneRunning
    /\ written = NoneWritten

NotCalled ==
    [ called |-> FALSE, context |-> Context(Null), sessions |-> Absent,
      now |-> 0, status |-> "none", list |-> << >>, documents |-> << >>,
      df |-> << >>, totalDocs |-> 0 ]

Call(currentContext, sessions, now, outcome) ==
    [ called |-> TRUE, context |-> currentContext, sessions |-> sessions,
      now |-> now, status |-> outcome.status, list |-> outcome.list,
      documents |-> outcome.documents, df |-> outcome.df,
      totalDocs |-> outcome.totalDocs ]

Init ==
    /\ clock = Now0
    /\ context \in ContextPool
    /\ corpus \in { Absent, Array(<< >>) }
    /\ ranked = NotCalled
    /\ LibraryIdle
    /\ HooksIdle

\* a session is loaded into the corpus
AddSession ==
    /\ corpus.kind = "array"
    /\ Len(corpus.items) < MaxCorpus
    /\ \E s \in SessionPool : corpus' = Array(Append(corpus.items, s))
    /\ ranked' = NotCalled
    /\ UNCHANGED << clock, context, args, result, hook, buffer, memories,
                 running, written >>

\* a minute passes
Tick ==
    /\ clock < Now0 + MaxTick
    /\ clock' = clock + 1
    /\ ranked' = NotCalled
    /\ UNCHANGED << context, corpus, args, result, hook, buffer, memories,
                 running, written >>

\* a bug calculateRelevanceScores could have: it sorts the array it was
\* given instead of the array it built
SessionsAfterSorted(sessions, outcome) ==
    IF outcome.status = "returned" /\ sessions.kind = "array"
    THEN Array([ i \in 1..Len(outcome.list) |-> outcome.list[i].session ])
    ELSE sessions

\* the array `sessions` as a call leaves it: both map() calls build a new
\* array, sort() orders the new array `scores`, and no statement assigns to
\* `sessions` or to one of its records
SessionsAfter(sessions, outcome) == sessions

\* calculateRelevanceScores(context, corpus)
Rank ==
    /\ \E outcome \in calculateRelevanceScores(context, corpus, clock) :
           /\ ranked' = Call(context, corpus, clock, outcome)
           /\ corpus' = SessionsAfter(corpus, outcome)
    /\ UNCHANGED << clock, context, args, result, hook, buffer, memories,
                 running, written >>

Next == AddSession \/ Tick \/ Rank

Spec == Init /\ [][Next]_vars

\* ------------------------------------------------------------------------
\* The exports of utils.js called directly (module.exports, lines 252-262)
\* ------------------------------------------------------------------------

\* how many tokens a sequence handed to calculateTF holds
MaxTokens == 3

\* the largest weight of a vector handed to cosineSimilarity, in halves
MaxWeight == 2

\* texts handed to extractKeywords: strings, null, "" and the number 42
TextPool ==
    { Null, << >>, Num(<< "4", "2" >>), TextAuth, TextYes, TextJwt, TextCss,
      TextLogin, TextEdited, TextNpm, TextWhy, TextConstructor, TextMixed,
      CwdAuth, PathLogin }

\* paths handed to extractPathKeywords
PathPool ==
    { Null, << >>, Num(<< "4", "2" >>), CwdAuth, PathLogin, PathDotted,
      PathWindows, TextMixed, TextConstructor }

Vocabulary == { "auth", "css", InheritedFunction, ProtoAccessor }

\* the token sequences handed to calculateTF
TokenSequences == UNION { [ 1..n -> Vocabulary ] : n \in 0..MaxTokens }

VectorKeys == { "auth", "css", InheritedFunction }

Weights == { (w * SCALE) \div 2 : w \in 0..MaxWeight }

\* the vectors handed to cosineSimilarity: keys with weights that are not
\* negative
Vectors == UNION { [ keys -> Weights ] : keys \in SUBSET VectorKeys }

CallOf(fn, a, b) == [ fn |-> fn, a |-> a, b |-> b ]

\* the call returned value; words spells the tokens of a returned token
\* sequence, character by character
Gave(value, words) ==
    [ done |-> TRUE, threw |-> FALSE, value |-> value, words |-> words ]

Raised == [ done |-> TRUE, threw |-> TRUE, value |-> << >>, words |-> << >> ]

LibraryInit ==
    /\ clock = Now0
    /\ context = Context(Null)
    /\ corpus = Absent
    /\ ranked = NotCalled
    /\ result = NoResult
    /\ HooksIdle
    /\ \/ \E text \in TextPool : args = CallOf("extractKeywords", text, << >>)
       \/ \E path \in PathPool : args = CallOf("extractPathKeywords", path, << >>)
       \/ \E keywords \in TokenSequences : args = CallOf("calculateTF", keywords, << >>)
       \/ \E vec1, vec2 \in Vectors : args = CallOf("cosineSimilarity", vec1, vec2)

\* extractKeywords(args.a)
CallExtractKeywords ==
    /\ args.fn = "extractKeywords" /\ ~ result.done
    /\ result' = Gave(extractKeywords(args.a), KeywordWords(args.a))
    /\ UNCHANGED << clock, context, corpus, ranked, args, hook, buffer, memories,
                 running, written >>

\* extractPathKeywords(args.a)
CallExtractPathKeywords ==
    /\ args.fn = "extractPathKeywords" /\ ~ result.done
    /\ result' = IF PathThrows(args.a) THEN Raised
                  ELSE Gave(extractPathKeywords(args.a), PathWords(args.a))
    /\ UNCHANGED << clock, context, corpus, ranked, args, hook, buffer, memories,
                 running, written >>

\* calculateTF(args.a)
CallCalculateTF ==
    /\ args.fn = "calculateTF" /\ ~ result.done
    /\ result' = Gave(calculateTF(args.a), << >>)
    /\ UNCHANGED << clock, context, corpus, ranked, args, hook, buffer, memories,
                 running, written >>

\* cosineSimilarity(args.a, args.b)
CallCosineSimilarity ==
    /\ args.fn = "cosineSimilarity" /\ ~ result.done
    /\ result' = Gave(cosineSimilarity(args.a, args.b), << >>)
    /\ UNCHANGED << clock, context, corpus, ranked, args, hook, buffer, memories,
                 running, written >>

LibraryNext ==
    \/ CallExtractKeywords
    \/ CallExtractPathKeywords
    \/ CallCalculateTF
    \/ CallCosineSimilarity

LibrarySpec == LibraryInit /\ [][LibraryNext]_vars

\* ------------------------------------------------------------------------
\* The context hook (memory-commands.js, lines 304-527): SessionStart
\* ------------------------------------------------------------------------

MAX_SESSIONS_TO_SHOW == 5

MIN_RELEVANCE_SCORE == SCALE \div 10

\* how many sessions the memory files hold
MaxStored == 6

\* item.score >= MIN_RELEVANCE_SCORE
Relevant(item) == item.score # NaN /\ item.score >= MIN_RELEVANCE_SCORE

\* list.slice(0, n)
Slice(list, n) == SubSeq(list, 1, IF Len(list) < n THEN Len(list) ELSE n)

\* relevantSessions, lines 486-493: the first MAX_SESSIONS_TO_SHOW of the
\* ranking that reach MIN_RELEVANCE_SCORE, or the first 3 if none does
SelectRelevant(rankedSessions) ==
    LET relevantSessions == Slice(SelectSeq(rankedSessions, Relevant), MAX_SESSIONS_TO_SHOW)
    IN  IF Len(relevantSessions) = 0 /\ Len(rankedSessions) > 0
        THEN Slice(rankedSessions, 3)
        ELSE relevantSessions

\* what a run of the context hook leaves: "empty" is the output with
\* additionalContext '', "context" the output with the formatted sessions,
\* "none" no output (the catch of line 519 writes to stderr only)
ContextHookRun(stdout, ranking, relevant) ==
    [ name |-> "context", stdout |-> stdout, ranking |-> ranking, relevant |-> relevant,
      tool |-> "none", before |-> NoBuffer ]

StoredInit ==
    /\ clock = Now0
    /\ context = Context(CwdAuth)
    /\ corpus = Array(<< >>)
    /\ ranked = NotCalled
    /\ LibraryIdle
    /\ HooksIdle

\* a session of the pool is added to a memory file, as long as the files
\* hold fewer than max sessions
StoreFrom(pool, max) ==
    /\ Len(corpus.items) < max
    /\ \E s \in pool : corpus' = Array(Append(corpus.items, s))
    /\ ranked' = NotCalled
    /\ hook' = NoHook
    /\ UNCHANGED << clock, context, args, result, buffer, memories,
                 running, written >>

\* main() of the context hook, with allSessions the stored sessions
ContextHook ==
    /\ IF Len(corpus.items) = 0
       THEN hook' = ContextHookRun("empty", << >>, << >>)
       ELSE \E outcome \in calculateRelevanceScores(context, corpus, clock) :
                hook' = IF outcome.status = "threw"
                          THEN ContextHookRun("none", << >>, << >>)
                        ELSE IF Len(SelectRelevant(outcome.list)) = 0
                          THEN ContextHookRun("empty", outcome.list, << >>)
                        ELSE ContextHookRun("context", outcome.list,
                                            SelectRelevant(outcome.list))
    /\ UNCHANGED << clock, context, corpus, ranked, args, result, buffer, memories,
                 running, written >>

\* the memory files come to hold fresh sessions, sessions without date or
\* text and damaged ones
StoredNext ==
    \/ StoreFrom({ SessionNow, SessionEpoch, SessionBadConversations }, MaxStored)
    \/ ContextHook

StoredSpec == StoredInit /\ [][StoredNext]_vars

\* ------------------------------------------------------------------------
\* The ranker on three sessions of different age and subject
\* ------------------------------------------------------------------------

\* how many sessions the corpus of the three holds
MaxScenario == 3

\* 2 hours old, about JWT, with one conversation
ScenarioA(message) ==
    Session(Now0 - 2 * 60, TextJwt, Array(<< Conversation(message) >>), Absent)

\* 10 days old, about CSS, without conversations
ScenarioB == Session(Now0 - 10 * DayMinutes, TextCss, Absent, Absent)

\* 30 days old, about the auth service, with one conversation
ScenarioC(message) ==
    Session(Now0 - 30 * DayMinutes, TextRefactored,
            Array(<< Conversation(message) >>), Absent)

\* the three sessions are stored, the two with conversations with any of
\* three messages, and ranked
ScenarioNext ==
    \/ StoreFrom({ ScenarioA(m) : m \in { TextYes, TextWhy, TextNpm } }
                   \cup { ScenarioB }
                   \cup { ScenarioC(m) : m \in { TextYes, TextWhy, TextNpm } },
                 MaxScenario)
    \/ Rank

ScenarioSpec == StoredInit /\ [][ScenarioNext]_vars

\* ------------------------------------------------------------------------
\* The ranker on sessions that score alike
\* ------------------------------------------------------------------------

\* how many sessions the corpus of equals holds
MaxTied == 4

\* two dated sessions and one without a date are stored, each any number
\* of times, and ranked
TiedNext == StoreFrom({ SessionOld, SessionNow, SessionUndated }, MaxTied) \/ Rank

TiedSpec == StoredInit /\ [][TiedNext]_vars

\* ------------------------------------------------------------------------
\* The observation hook (summary-hook.js, lines 322-636): PostToolUse
\* ------------------------------------------------------------------------

\* the observations the buffer keeps
MAX_OBSERVATIONS == 100

\* s.includes(sub)
Includes(s, sub) ==
    \E i \in 1..(Len(s) - Len(sub) + 1) : SubSeq(s, i, i + Len(sub) - 1) = sub

\* isError(response)
isError(response) ==
    IF Falsy(response) THEN FALSE
    ELSE LET lower == ToLowerCase(ToStr(response))
         IN  \/ Includes(lower, << "e", "r", "r", "o", "r" >>)
             \/ Includes(lower, << "f", "a", "i", "l", "e", "d" >>)
             \/ Includes(lower, << "n", "o", "t", " ", "f", "o", "u", "n", "d" >>)

\* truncate(str, maxLen)
truncate(str, maxLen) ==
    IF Falsy(str) THEN << >>
    ELSE LET trimmed == Trim(ToStr(str))
         IN  IF Len(trimmed) > maxLen
             THEN SubSeq(trimmed, 1, maxLen) \o << ".", ".", "." >>
             ELSE trimmed

\* shortPath(filePath): the last two segments of the path
shortPath(filePath) ==
    IF Falsy(filePath) THEN << "u", "n", "k", "n", "o", "w", "n" >>
    ELSE LET parts == Split([ i \in 1..Len(filePath) |->
                               IF filePath[i] = "\\" THEN "/" ELSE filePath[i] ], "/")
         IN  IF Len(parts) < 2 THEN parts[1]
             ELSE parts[Len(parts) - 1] \o << "/" >> \o parts[Len(parts)]

\* formatObservation(toolData): the observation of a tool use, or null
\* (kind "null") for a tool the hook does not record. An emoji is one
\* character, written by its code point; toolData.text is new_string,
\* content or prompt, whichever the tool has.
formatObservation(toolData) ==
    LET hasError == isError(toolData.tool_response)
        file     == shortPath(toolData.file_path)
        preview  == truncate(toolData.text, 100)
        command  == IF Falsy(toolData.command) THEN << >> ELSE toolData.command
        words    == SplitRuns(command, SpaceChar)
        firstWord == IF words[1] = << >> THEN << "u", "n", "k", "n", "o", "w",
                "n" >> ELSE words[1]
        emoji    == IF Join(firstWord) = "git" THEN << "U+1F500" >>
                    ELSE IF Join(firstWord) \in { "npm", "yarn", "pnpm" } THEN << "U+1F4E6" >>
                    ELSE IF Join(firstWord) \in { "pip", "python" } THEN << "U+1F40D" >>
                    ELSE IF Join(firstWord) = "docker" THEN << "U+1F433" >>
                    ELSE IF Join(firstWord) = "kubectl" THEN << "U+2638" >>
                    ELSE IF Join(firstWord) = "make" THEN << "U+1F528" >>
                    ELSE IF Join(firstWord) = "cargo" THEN << "U+1F980" >>
                    ELSE IF Join(firstWord) = "go" THEN << "U+1F439" >>
                    ELSE << "U+1F4BB" >>
        cmdLabel == IF Join(firstWord) = "git" /\ Len(words) > 1 /\ words[2] # << >>
                    THEN firstWord \o << " " >> \o words[2] ELSE firstWord
        agentType == IF Falsy(toolData.subagent_type) THEN << "u", "n", "k", "n", "o", "w",
                "n" >>
                     ELSE toolData.subagent_type
        description == IF Falsy(toolData.description) THEN << >>
                       ELSE toolData.description
        agentEmoji == IF agentType = << "E", "x", "p", "l", "o", "r",
                "e" >> THEN << "U+1F50D" >>
                      ELSE IF agentType = << "P", "l", "a", "n" >> THEN << "U+1F4CB" >>
                      ELSE IF agentType = << "B", "a", "s", "h" >> THEN << "U+1F4BB" >>
                      ELSE << "U+1F916" >>
        Made(summary, path, cmd) ==
            [ kind |-> "observation", summary |-> summary, file |-> path,
              command |-> cmd, success |-> ~ hasError ]
    IN  IF toolData.tool_name = "Edit"
        THEN Made(IF hasError THEN << "U+274C" >> \o << " ", "F", "a", "i", "l", "e", "d", " ",
                "t", "o", " ", "e", "d", "i", "t", " " >> \o file
                  ELSE << "U+270F" >> \o << " ", "E", "d", "i", "t", "e", "d",
                          " " >> \o file \o << ":", " " >> \o preview,
                  toolData.file_path, Null)
        ELSE IF toolData.tool_name = "Write"
        THEN Made(IF hasError THEN << "U+274C" >> \o << " ", "F", "a", "i", "l", "e", "d", " ",
                "t", "o", " ", "c", "r", "e", "a", "t", "e", " " >> \o file
                  ELSE << "U+1F4DD" >> \o << " ", "C", "r", "e", "a", "t", "e", "d",
                          " " >> \o file \o << ":", " " >> \o preview,
                  toolData.file_path, Null)
        ELSE IF toolData.tool_name = "Bash"
        THEN Made(IF hasError
                  THEN << "U+274C" >> \o << " " >> \o cmdLabel \o << " ", "f", "a", "i", "l",
                          "e", "d", ":", " " >> \o truncate(command, 80)
                  ELSE emoji \o << " ", "R", "a", "n", " " >> \o cmdLabel \o << ":",
                          " " >> \o truncate(command, 80),
                  Null, command)
        ELSE IF toolData.tool_name = "Task"
        THEN Made(IF hasError
                  THEN << "U+274C" >> \o << " ", "A", "g", "e", "n", "t",
                          " " >> \o agentType \o << " ", "f", "a", "i", "l", "e", "d", ":",
                          " " >> \o description
                  ELSE agentEmoji \o << " ", "A", "g", "e", "n", "t",
                          " " >> \o agentType \o << ":", " " >>
                         \o (IF description # << >> THEN description
                             ELSE truncate(toolData.text, 80)),
                  Null, Null)
        ELSE [ kind |-> "null", summary |-> Null, file |-> Null, command |-> Null,
               success |-> FALSE ]

\* "npm ERR! not found"  (a tool response that reports an error)
TextFailed ==
    << "n", "p", "m", " ", "E", "R", "R", "!", " ", "n", "o", "t", " ", "f",
       "o", "u", "n", "d" >>

\* what Claude Code hands the hook on stdin, with the last user message
\* extractConversationContext finds in the transcript
HookData(tool_name, tool_response, lastUserMessage) ==
    [ tool_name |-> tool_name, tool_response |-> tool_response,
      file_path |-> IF tool_name \in { "Edit", "Write", "Read" } THEN PathLogin ELSE Null,
      text |-> IF tool_name \in { "Edit", "Write", "Task" } THEN TextWhy ELSE Null,
      command |-> IF tool_name = "Bash" THEN TextNpm ELSE Null,
      subagent_type |-> Null,
      description |-> IF tool_name = "Task" THEN TextLogin ELSE Null,
      lastUserMessage |-> lastUserMessage ]

HookInputs ==
    { HookData(tool, response, message) :
        tool \in { "Edit", "Write", "Bash", "Task", "Read", "Grep" },
        response \in { Null, TextFailed },
        message \in { Null, TextWhy } }

\* the entry pushed at lines 608-615, made at the minute `now`
Pushed(observation, toolData, now) ==
    [ summary |-> observation.summary, file |-> observation.file,
      command |-> observation.command, success |-> observation.success,
      tool |-> toolData.tool_name, timestamp |-> now,
      lastUserMessage |-> truncate(toolData.lastUserMessage, 200) ]

\* buffer.json holding the observations and conversations
Json(observations, conversations) ==
    [ kind |-> "json", observations |-> observations, conversations |-> conversations ]

\* a buffer of n observations, made a minute apart by earlier runs of the
\* hook
Filled(n) ==
    Json([ i \in 1..n |->
             Pushed(formatObservation(HookData("Edit", Null, Null)),
                    HookData("Edit", Null, Null), Now0 - n - 1 + i) ],
         << Conversation(TextWhy) >>)

\* loadBuffer(): the parsed file, or a new buffer if there is no file or it
\* does not parse
loadBuffer(file) == IF file.kind = "json" THEN file ELSE Json(<< >>, << >>)

\* a bug the cap could have: the first MAX_OBSERVATIONS entries are kept
KeepEarliest(observations) ==
    SubSeq(observations, 1,
           IF Len(observations) > MAX_OBSERVATIONS THEN MAX_OBSERVATIONS
           ELSE Len(observations))

\* lines 618-620: observations.slice(-100) once there are more than 100
KeepLatest(observations) ==
    IF Len(observations) > MAX_OBSERVATIONS
    THEN SubSeq(observations, Len(observations) - MAX_OBSERVATIONS + 1, Len(observations))
    ELSE observations

\* what a run of the observation hook leaves: the tool it was run for, the
\* buffer file it found, and its output
ObservationHookRun(tool, before) ==
    [ name |-> "observation", stdout |-> "success", ranking |-> << >>,
      relevant |-> << >>, tool |-> tool, before |-> before ]

\* before a run the buffer file is missing, cut short (kind "corrupt":
\* JSON.parse raises on it), empty, one short of full, or full
BufferInit ==
    /\ clock = Now0
    /\ context = Context(CwdAuth)
    /\ corpus = Array(<< >>)
    /\ ranked = NotCalled
    /\ LibraryIdle
    /\ hook = NoHook
    /\ memories = NoMemories
    /\ running = NoneRunning
    /\ written = NoneWritten
    /\ buffer \in { NoBuffer, [ NoBuffer EXCEPT !.kind = "corrupt" ], Filled(0),
                    Filled(MAX_OBSERVATIONS - 1), Filled(MAX_OBSERVATIONS) }

\* main() of the observation hook, run for a tool use; the run takes a
\* minute
ObservationHook ==
    /\ clock < Now0 + MaxTick
    /\ clock' = clock + 1
    /\ \E hookData \in HookInputs :
           LET observation == formatObservation(hookData)
               loaded      == loadBuffer(buffer)
           IN  /\ buffer' =
                    IF observation.kind = "null" THEN buffer
                    ELSE Json(KeepLatest(Append(loaded.observations,
                                                Pushed(observation, hookData, clock))),
                              loaded.conversations)
               /\ written' =
                    IF observation.kind = "null" THEN written
                    ELSE [ written EXCEPT
                             !.observations = @ \cup { Pushed(observation, hookData, clock) } ]
               /\ hook' = ObservationHookRun(hookData.tool_name, buffer)
    /\ UNCHANGED << context, corpus, ranked, args, result, memories, running >>

BufferSpec == BufferInit /\ [][ObservationHook]_vars

\* ------------------------------------------------------------------------
\* Properties
\* ------------------------------------------------------------------------

\* the last call returned a list
ReturnedCall == ranked.called /\ ranked.status = "returned"

Entries == 1..Len(ranked.list)

\* x >= y of JavaScript: false when either side is NaN
GreaterEq(x, y) == x # NaN /\ y # NaN /\ x >= y

\* similarity * 0.4 + timeWeight * 0.45, from the fields an element reports
WeightedTerms(e) ==
    IF e.similarity = NaN \/ e.timeWeight = NaN THEN NaN
    ELSE (e.similarity * 40) \div 100 + (e.timeWeight * 45) \div 100

\* C1: no element of a returned list reports a score greater than 1.0,
\* whatever the corpus, the context and the clock (a session stamped in the
\* future included).
ScoreClamp ==
    ReturnedCall =>
        \A i \in Entries : ~ (ranked.list[i].score # NaN /\ ranked.list[i].score > SCALE)

\* C1, witness: a session stamped after the clock has a time weight above 1
\* and a sum above 1, and reports exactly 1.0.
ScoreClampWitness ==
    /\ ReturnedCall
    /\ \E i \in Entries :
           /\ ranked.list[i].session.date # NaN
           /\ ranked.list[i].session.date > ranked.now
           /\ ranked.list[i].timeWeight > SCALE
           /\ WeightedTerms(ranked.list[i]) + ranked.list[i].conversationBonus > SCALE
           /\ ranked.list[i].score = SCALE

\* C2 (as claimed): a returned list is ordered by descending score: every
\* element's score is >= the score of the element after it, also when the
\* corpus holds sessions with a missing or unparseable timestamp.
RankedDescending ==
    ReturnedCall =>
        \A i \in Entries :
            i < Len(ranked.list)
              => GreaterEq(ranked.list[i].score, ranked.list[i + 1].score)

\* C3 (as claimed): the call does not throw on a session whose timestamp is
\* missing or unparseable, and that session's time weight is 0, its score
\* similarity * 0.4 plus the bonus.
UndatedIsStale ==
    /\ ranked.called
    /\ ~ ContextThrows(ranked.context)
    /\ \A k \in 1..Len(ranked.sessions.items) : ~ SessionThrows(ranked.sessions.items[k])
    => /\ ranked.status = "returned"
       /\ \A i \in Entries :
              ranked.list[i].session.date = NaN
                => /\ ranked.list[i].timeWeight = 0
                   /\ ranked.list[i].score =
                         (ranked.list[i].similarity * 40) \div 100
                           + ranked.list[i].conversationBonus

\* the age in minutes of the session of element e when it was ranked
AgeOf(e) == ranked.now - e.session.date

\* C4 (as claimed): timeWeight is 0.5 for a session 24 hours old, 1.0 for a
\* session stamped at the moment of the call and exp(-1) for one 14 days old.
TimeDecayBoundary ==
    ReturnedCall =>
        \A i \in Entries :
            LET e == ranked.list[i]
            IN  e.session.date # NaN =>
                  /\ AgeOf(e) = DayMinutes => e.timeWeight = SCALE \div 2
                  /\ AgeOf(e) = 0 => e.timeWeight = SCALE
                  /\ AgeOf(e) = 14 * DayMinutes => e.timeWeight = (368 * SCALE) \div 1000

\* C4 (amended): timeWeight is exp(-1/14), about 0.931, for a session exactly
\* 24 hours old (the linear branch ends before 24 hours, and stays above 0.5
\* up to there), 1.0 for a session stamped at the moment of the call and
\* exp(-1), about 0.368, for one 14 days old.
TimeDecayAtDay ==
    ReturnedCall =>
        \A i \in Entries :
            LET e == ranked.list[i]
            IN  e.session.date # NaN =>
                  /\ AgeOf(e) = DayMinutes => e.timeWeight = (931 * SCALE) \div 1000
                  /\ AgeOf(e) >= 0 /\ AgeOf(e) < DayMinutes
                       => e.timeWeight > SCALE \div 2 /\ e.timeWeight <= SCALE
                  /\ AgeOf(e) = 0 => e.timeWeight = SCALE
                  /\ AgeOf(e) = 14 * DayMinutes => e.timeWeight = (368 * SCALE) \div 1000

\* C4, witness: a session exactly 24 hours old was ranked.
TimeDecayAtDayWitness ==
    /\ ReturnedCall
    /\ \E i \in Entries :
           /\ ranked.list[i].session.date # NaN
           /\ AgeOf(ranked.list[i]) = DayMinutes
           /\ ranked.list[i].timeWeight > SCALE \div 2

\* C5 (as claimed): score = min(similarity * 0.4 + timeWeight * 0.45 +
\* bonus * 0.15, 1.0) with the three values the element reports, the bonus
\* being 0.15 or 0.
FusionScaledBonus ==
    ReturnedCall =>
        \A i \in Entries :
            LET e == ranked.list[i]
            IN  e.score = FMin(FAdd(WeightedTerms(e), (e.conversationBonus * 15) \div 100),
                               SCALE)

\* C5 (amended): score = min(similarity * 0.4 + timeWeight * 0.45 + bonus,
\* 1.0) with the three values the element reports, the bonus (0.15 or 0)
\* added as it is; the score is NaN when the time weight is.
FusionFormula ==
    ReturnedCall =>
        \A i \in Entries :
            LET e   == ranked.list[i]
                sum == FAdd(WeightedTerms(e), e.conversationBonus)
            IN  /\ e.conversationBonus \in { 0, (15 * SCALE) \div 100 }
                /\ e.score = IF sum = NaN THEN NaN
                             ELSE IF sum < SCALE THEN sum ELSE SCALE

\* C5, witness: an element with the bonus and a score below the clamp.
FusionFormulaWitness ==
    /\ ReturnedCall
    /\ \E i \in Entries :
           /\ ranked.list[i].conversationBonus > 0
           /\ ranked.list[i].similarity > 0
           /\ ranked.list[i].score # NaN
           /\ ranked.list[i].score < SCALE

\* session a carries a conversations list that is not empty, session b none
\* (or an empty one), and they agree on everything else
SameButConversations(a, b) ==
    /\ a.kind = "record" /\ b.kind = "record"
    /\ a.date = b.date /\ a.summary = b.summary /\ a.observations = b.observations
    /\ a.conversations.kind = "array" /\ Len(a.conversations.items) > 0
    /\ \/ b.conversations.kind = "absent"
       \/ b.conversations.kind = "array" /\ Len(b.conversations.items) = 0

\* no message of the session's conversations yields a token
SilentConversations(a) ==
    \A k \in 1..Len(a.conversations.items) :
        extractKeywords(a.conversations.items[k].message) = << >>

\* C6 (as claimed): two sessions of one call that differ only in that one
\* carries a conversations list that is not empty have final scores, before
\* the clamp, that differ by exactly 0.15, whatever the messages say.
BonusAdditivity ==
    ReturnedCall =>
        \A i, j \in Entries :
            LET a == ranked.list[i]
                b == ranked.list[j]
            IN  SameButConversations(a.session, b.session)
                  => /\ a.finalScore # NaN /\ b.finalScore # NaN
                     /\ a.finalScore - b.finalScore = (15 * SCALE) \div 100

\* C6 (amended): such a pair differs by exactly 0.15 before the clamp when no
\* conversation message yields a token (messages with tokens change the
\* similarity as well); with a missing or unparseable timestamp both final
\* scores are NaN.
BonusAdditivitySilent ==
    ReturnedCall =>
        \A i, j \in Entries :
            LET a == ranked.list[i]
                b == ranked.list[j]
            IN  SameButConversations(a.session, b.session)
                  => IF a.session.date = NaN
                     THEN a.finalScore = NaN /\ b.finalScore = NaN
                     ELSE SilentConversations(a.session)
                            => a.finalScore - b.finalScore = (15 * SCALE) \div 100

\* C6, witness: such a pair, dated and with silent conversations, was ranked.
BonusAdditivityWitness ==
    /\ ReturnedCall
    /\ \E i, j \in Entries :
           /\ SameButConversations(ranked.list[i].session, ranked.list[j].session)
           /\ ranked.list[i].session.date # NaN
           /\ SilentConversations(ranked.list[i].session)
           /\ ranked.list[i].score > ranked.list[j].score

\* C7 (as claimed): when scoring one session of the corpus raises an error,
\* the call still returns an element for every other session.
FailuresIsolated ==
    /\ ranked.called
    /\ ~ NoSessions(ranked.sessions)
    /\ ~ ContextThrows(ranked.context)
    => /\ ranked.status = "returned"
       /\ \A k \in 1..Len(ranked.sessions.items) :
              ~ SessionThrows(ranked.sessions.items[k])
                => \E i \in Entries : ranked.list[i].idx = k

\* the tokens of the conversation messages of a session, in order
MessageTokens(s) ==
    Flatten([ k \in 1..Len(s.conversations.items) |->
                extractKeywords(s.conversations.items[k].message) ])

\* C8 (as claimed): a session's token sequence is the tokens of its summary,
\* then of each conversation message, then for each observation the tokens
\* of its summary, of its file path and of its command; nothing else.
DocumentIsListedFields ==
    ReturnedCall =>
        \A k \in 1..Len(ranked.documents) :
            LET s == ranked.sessions.items[k]
            IN  ranked.documents[k] =
                  extractKeywords(s.summary)
                    \o MessageTokens(s)
                    \o Flatten([ n \in 1..Len(s.observations.items) |->
                         extractKeywords(s.observations.items[n].summary)
                           \o extractPathKeywords(s.observations.items[n].file)
                           \o extractKeywords(s.observations.items[n].command) ])

\* C8 (amended): ... for each observation the tokens of its summary, of its
\* file path, of its command and of the last user message recorded in its
\* context; nothing else.
DocumentIsConcatenation ==
    ReturnedCall =>
        \A k \in 1..Len(ranked.documents) :
            LET s == ranked.sessions.items[k]
            IN  ranked.documents[k] =
                  extractKeywords(s.summary)
                    \o MessageTokens(s)
                    \o Flatten([ n \in 1..Len(s.observations.items) |->
                         extractKeywords(s.observations.items[n].summary)
                           \o extractPathKeywords(s.observations.items[n].file)
                           \o extractKeywords(s.observations.items[n].command)
                           \o extractKeywords(s.observations.items[n].lastUserMessage) ])

\* C8, witness: a ranked session with a summary, a conversation and an
\* observation whose four texts all yield tokens.
DocumentWitness ==
    /\ ReturnedCall
    /\ \E k \in 1..Len(ranked.documents) :
           LET s == ranked.sessions.items[k]
           IN  /\ extractKeywords(s.summary) # << >>
               /\ MessageTokens(s) # << >>
               /\ \E n \in 1..Len(s.observations.items) :
                      /\ extractKeywords(s.observations.items[n].summary) # << >>
                      /\ extractPathKeywords(s.observations.items[n].file) # << >>
                      /\ extractKeywords(s.observations.items[n].command) # << >>
                      /\ extractKeywords(s.observations.items[n].lastUserMessage) # << >>

\* C9: the bonus an element reports is 0.15 exactly when its session carries
\* a conversations list with at least one entry, and 0 when the list is
\* absent or empty.
BonusIffConversations ==
    ReturnedCall =>
        \A i \in Entries :
            LET c == ranked.list[i].session.conversations
            IN  ranked.list[i].conversationBonus =
                  IF c.kind = "array" /\ Len(c.items) >= 1
                  THEN (15 * SCALE) \div 100 ELSE 0

\* C9, witness: one call ranked a session with a conversation and a session
\* with an empty conversations list.
BonusWitness ==
    /\ ReturnedCall
    /\ \E i, j \in Entries :
           /\ ranked.list[i].conversationBonus > 0
           /\ ranked.list[j].session.conversations = Array(<< >>)
           /\ ranked.list[j].conversationBonus = 0

\* C10: called with an empty or absent corpus, the ranker returns the empty
\* list at once: the context is not tokenized, so a context whose path
\* cannot be tokenized raises nothing either.
EmptyCorpusReturnsEmpty ==
    /\ ranked.called
    /\ ranked.sessions.kind = "absent" \/ Len(ranked.sessions.items) = 0
    => ranked.status = "returned" /\ ranked.list = << >>

\* C10, witness: a call with an empty list of sessions and a context whose
\* cwd is a number returned.
EmptyCorpusWitness ==
    /\ ranked.called
    /\ ranked.sessions.kind = "array" /\ Len(ranked.sessions.items) = 0
    /\ IsNumber(ranked.context.cwd)
    /\ ranked.status = "returned"

\* the tokens of the documents the last call scored: the context's and
\* every session's
ScoredTokens ==
    ToSet(ContextKeywords(ranked.context))
      \cup UNION { ToSet(ranked.documents[i]) : i \in 1..Len(ranked.documents) }

\* C11: a call that scores a corpus counts document frequencies over the
\* context document and every session document, with N = corpus size + 1;
\* every token of a scored document has 1 <= df <= N and so an idf factor
\* that is a number greater than 0.
DocumentFrequencyBounds ==
    ReturnedCall /\ ~NoSessions(ranked.sessions) =>
        /\ ranked.totalDocs = Len(ranked.sessions.items) + 1
        /\ Len(ranked.documents) = Len(ranked.sessions.items)
        /\ \A t \in ScoredTokens :
              /\ t \in DOMAIN ranked.df
              /\ ranked.df[t] # NaN
              /\ ranked.df[t] =
                   Cardinality({ i \in 1..Len(ranked.documents) :
                                   t \in ToSet(ranked.documents[i]) })
                     + (IF t \in ToSet(ContextKeywords(ranked.context)) THEN 1 ELSE 0)
              /\ 1 <= ranked.df[t] /\ ranked.df[t] <= ranked.totalDocs
              /\ Idf(t, ranked.df, ranked.totalDocs) # NaN
              /\ Idf(t, ranked.df, ranked.totalDocs) > 0

\* the direct call of fn has returned or raised
Called(fn) == args.fn = fn /\ result.done

\* C12: calculateTF on a sequence that is not empty gives a vector whose
\* keys are the distinct tokens of the sequence, whose values are numbers
\* in (0, 1] and one of whose values is exactly 1; on the empty sequence it
\* gives the empty vector.
TermFrequencyShape ==
    Called("calculateTF") =>
        LET tf == result.value
        IN  /\ ~ result.threw
            /\ DOMAIN tf = ToSet(args.a)
            /\ \A w \in DOMAIN tf : tf[w] # NaN /\ 0 < tf[w] /\ tf[w] <= SCALE
            /\ args.a # << >> => \E w \in DOMAIN tf : tf[w] = SCALE
            /\ args.a = << >> => tf = << >>

\* every weight of the vector is 0 (the empty vector included)
ZeroNorm(vec) == \A w \in DOMAIN vec : vec[w] = 0

\* C13: cosineSimilarity returns exactly 0 when either vector is empty or
\* has norm 0; for vectors whose weights are not negative the result is a
\* number in [0, 1]; and cosineSimilarity(a, a) = 1 for every a that is not
\* zero.
CosineRange ==
    Called("cosineSimilarity") =>
        /\ ~ result.threw
        /\ ZeroNorm(args.a) \/ ZeroNorm(args.b) => result.value = 0
        /\ result.value # NaN /\ 0 <= result.value /\ result.value <= SCALE
        /\ args.a = args.b /\ ~ ZeroNorm(args.a) => result.value = SCALE

\* the Token of the glossary, on a word given by its characters: lowercase,
\* two characters or more, word characters or Hangul only, no stopword, not
\* all digits
IsToken(word) ==
    /\ Len(word) >= 2
    /\ \A i \in 1..Len(word) : word[i] \in (WordChar \ Upper) \cup Hangul
    /\ Join(word) \notin STOPWORDS
    /\ ~ AllDigits(word)

\* what holds of a token of a path: lowercase, two characters or more, no
\* stopword, no separator in it
IsPathToken(word) ==
    /\ Len(word) >= 2
    /\ \A i \in 1..Len(word) :
           word[i] \notin Upper \cup { "/", "\\", "-", "_" } \cup SpaceChar
    /\ Join(word) \notin STOPWORDS

\* a tokenizer was called directly and returned
Tokenized ==
    /\ Called("extractKeywords") \/ Called("extractPathKeywords")
    /\ ~ result.threw

\* the returned tokens are the returned words, joined
TokensSpelled ==
    /\ Len(result.value) = Len(result.words)
    /\ \A i \in 1..Len(result.value) : result.value[i] = Join(result.words[i])

\* C14 as claimed: every token extractKeywords or extractPathKeywords
\* returns is a Token of the glossary.
TokensAreTokens ==
    Tokenized => TokensSpelled /\ \A i \in 1..Len(result.words) : IsToken(result.words[i])

\* C14: every token extractKeywords returns is a Token of the glossary;
\* every token extractPathKeywords returns is lowercase, two characters or
\* more, no stopword and free of path separators, hyphens, underscores and
\* whitespace, but may be all digits or hold other punctuation.
TokensWellFormed ==
    Tokenized =>
        /\ TokensSpelled
        /\ \A i \in 1..Len(result.words) :
              IF args.fn = "extractKeywords" THEN IsToken(result.words[i])
              ELSE IsPathToken(result.words[i])

\* a path gave an all-digit token and a token with a dot in it; a text
\* lost its digits
TokensWitness ==
    /\ Called("extractPathKeywords") /\ ~ result.threw
    /\ \E i, j \in 1..Len(result.words) :
           AllDigits(result.words[i]) /\ "." \in ToSet(result.words[j])

\* every text field of the session is missing, null or empty
TextFree(session) ==
    /\ session.kind = "record"
    /\ Falsy(session.summary)
    /\ session.conversations.kind \in { "absent", "array" }
    /\ \A i \in 1..Len(session.conversations.items) :
           Falsy(session.conversations.items[i].message)
    /\ session.observations.kind \in { "absent", "array" }
    /\ \A i \in 1..Len(session.observations.items) :
           LET obs == session.observations.items[i]
           IN  Falsy(obs.summary) /\ Falsy(obs.file) /\ Falsy(obs.command)
                 /\ Falsy(obs.lastUserMessage)

\* C15: a missing, null or empty text yields no token and raises nothing
\* (extractKeywords(""), extractKeywords(null) and extractPathKeywords("")
\* are empty), and a session all of whose text fields are missing is scored
\* from an empty document with a similarity of exactly 0.
EmptyInputSafety ==
    /\ extractKeywords(<< >>) = << >>
    /\ extractKeywords(Null) = << >>
    /\ extractPathKeywords(<< >>) = << >> /\ ~ PathThrows(<< >>)
    /\ extractPathKeywords(Null) = << >> /\ ~ PathThrows(Null)
    /\ \A i \in 1..Len(ranked.sessions.items) :
           TextFree(ranked.sessions.items[i]) => ~ SessionThrows(ranked.sessions.items[i])
    /\ ReturnedCall =>
          \A i \in Entries :
              TextFree(ranked.list[i].session) =>
                  /\ ranked.documents[ranked.list[i].idx] = << >>
                  /\ calculateTFIDF(ranked.documents[ranked.list[i].idx],
                                    ranked.df, ranked.totalDocs) = << >>
                  /\ ranked.list[i].similarity = 0

\* a session whose one observation has no text was scored against a
\* context that has tokens
EmptyInputWitness ==
    /\ ReturnedCall
    /\ ContextKeywords(ranked.context) # << >>
    /\ \E i \in Entries :
           /\ TextFree(ranked.list[i].session)
           /\ Len(ranked.list[i].session.observations.items) > 0
           /\ ranked.list[i].similarity = 0

\* C16: a call leaves the corpus it was given as it found it (same length,
\* same order, same records), and a returned list holds exactly one element
\* for every input session, each with that input record unchanged: the list
\* is a permutation of the corpus.
InputsUntouched ==
    ranked.called =>
        /\ corpus = ranked.sessions
        /\ ReturnedCall =>
              /\ Len(ranked.list) = Len(ranked.sessions.items)
              /\ { ranked.list[i].idx : i \in Entries } = 1..Len(ranked.sessions.items)
              /\ \A i \in Entries :
                     ranked.list[i].session = ranked.sessions.items[ranked.list[i].idx]

\* two different sessions came back in the other order, and the corpus
\* still has them as given
InputsUntouchedWitness ==
    /\ ReturnedCall
    /\ Len(ranked.list) = 2
    /\ ranked.list[1].idx = 2
    /\ ranked.list[1].session # ranked.list[2].session
    /\ corpus = ranked.sessions

\* the context hook has run
ContextHookRan == hook.name = "context"

\* the positions of the ranking whose score reaches the threshold
Passing(ranking) == { i \in 1..Len(ranking) : Relevant(ranking[i]) }

\* short is long without some of its elements, the others in their order
IsSubsequence(short, long) ==
    \E pos \in [ 1..Len(short) -> 1..Len(long) ] :
        /\ \A i \in 1..Len(short) : short[i] = long[pos[i]]
        /\ \A i, j \in 1..Len(short) : i < j => pos[i] < pos[j]

\* C17: the context hook injects the sessions of the ranking that score
\* 0.1 or more, at most the first 5 of them, or the top 3 of the ranking if
\* none does; so it injects at most 5 sessions, in the order of the
\* ranking, and at least one whenever a session is stored.
ContextSelection ==
    ContextHookRan =>
        /\ Passing(hook.ranking) # { } =>
              /\ \A i \in 1..Len(hook.relevant) : Relevant(hook.relevant[i])
              /\ Len(hook.relevant) =
                   (IF Cardinality(Passing(hook.ranking)) < 5
                    THEN Cardinality(Passing(hook.ranking)) ELSE 5)
        /\ Passing(hook.ranking) = { } =>
              hook.relevant = SubSeq(hook.ranking, 1,
                                     IF Len(hook.ranking) < 3 THEN Len(hook.ranking) ELSE 3)
        /\ Len(hook.relevant) <= 5
        /\ IsSubsequence(hook.relevant, hook.ranking)
        /\ Len(corpus.items) >= 1 => hook.stdout = "context" /\ Len(hook.relevant) >= 1

\* the sessions of the returned list, by their summaries
RankedSummaries == [ i \in Entries |-> ranked.list[i].session.summary ]

\* the last call ranked the three sessions, one of each, from the directory
\* /home/user/projects/auth-service
ScenarioRanked ==
    /\ ReturnedCall
    /\ ranked.context.cwd = CwdAuth
    /\ Len(ranked.list) = 3
    /\ ToSet(RankedSummaries) = { TextJwt, TextCss, TextRefactored }

\* C18: from /home/user/projects/auth-service, the session of 2 hours ago
\* about JWT (with conversations) ranks first, the session of 30 days ago
\* about the auth service (with conversations) second and the session of
\* 10 days ago about CSS (without conversations) last, in whatever order
\* the three are given.
ScenarioOrder ==
    ScenarioRanked => RankedSummaries = << TextJwt, TextRefactored, TextCss >>

\* the three were given with the CSS session first and the JWT session
\* last, and came back in the claimed order
ScenarioWitness ==
    /\ ScenarioRanked
    /\ ranked.sessions.items[1].summary = TextCss
    /\ ranked.sessions.items[3].summary = TextJwt
    /\ ranked.list[1].idx = 3 /\ ranked.list[3].idx = 1
    /\ ranked.list[1].score > ranked.list[2].score
    /\ ranked.list[2].score > ranked.list[3].score

\* C19: two sessions of a returned list whose scores are equal stand in the
\* list in the order they had in the corpus.
TiesKeepInputOrder ==
    ReturnedCall =>
        \A i, j \in Entries :
            /\ i < j
            /\ ranked.list[i].score # NaN
            /\ ranked.list[i].score = ranked.list[j].score
            => ranked.list[i].idx < ranked.list[j].idx

\* the observation hook has run
ObservationHookRan == hook.name = "observation"

\* the observations the run found in the buffer file
FoundObservations == loadBuffer(hook.before).observations

\* the observation the run made is the last of the buffer
LastIsNew ==
    /\ Len(buffer.observations) >= 1
    /\ buffer.observations[Len(buffer.observations)].tool = hook.tool
    /\ buffer.observations[Len(buffer.observations)].timestamp = clock - 1

\* C20 as claimed: run for Edit, Write, Bash or Task the observation hook
\* leaves the buffer with the observations it found and one more; run for
\* any other tool it leaves the buffer file as it found it; either way it
\* prints success.
ObservationAppended ==
    ObservationHookRan =>
        /\ hook.stdout = "success"
        /\ hook.tool \in { "Edit", "Write", "Bash", "Task" } =>
              /\ Len(buffer.observations) = Len(FoundObservations) + 1
              /\ SubSeq(buffer.observations, 1, Len(FoundObservations)) = FoundObservations
              /\ LastIsNew
        /\ hook.tool \notin { "Edit", "Write", "Bash", "Task" } => buffer = hook.before

\* C20: run for Edit, Write, Bash or Task the observation hook appends one
\* observation to those it found and keeps the latest 100 of the result (a
\* buffer that held 100 loses its oldest); run for any other tool it leaves
\* the buffer file as it found it; either way it prints success.
ObservationRecorded ==
    ObservationHookRan =>
        /\ hook.stdout = "success"
        /\ hook.tool \in { "Edit", "Write", "Bash", "Task" } =>
              /\ LastIsNew
              /\ \E o \in { buffer.observations[Len(buffer.observations)] } :
                     LET all == Append(FoundObservations, o)
                     IN  buffer.observations =
                           SubSeq(all, (IF Len(all) > 100 THEN Len(all) - 100 ELSE 0) + 1,
                                  Len(all))
              /\ buffer.conversations = loadBuffer(hook.before).conversations
        /\ hook.tool \notin { "Edit", "Write", "Bash", "Task" } => buffer = hook.before

\* a Bash run found 100 observations and left 100: its own last, the
\* oldest gone
ObservationWitness ==
    /\ ObservationHookRan
    /\ hook.tool = "Bash"
    /\ Len(FoundObservations) = 100
    /\ Len(buffer.observations) = 100
    /\ LastIsNew
    /\ buffer.observations[1] = FoundObservations[2]

\* ------------------------------------------------------------------------
\* The Stop hook (summary-hook.js, lines 1-322): a session is saved
\* ------------------------------------------------------------------------

\* the observations, conversations and keywords a saved session keeps
\* (lines 288, 289, 238), the sessions and keywords a memory file keeps
\* (lines 293, 300)
SessionObservations == 20

SessionConversations == 30

SessionKeywords == 50

MemorySessions == 50

MemoryKeywords == 200

\* a buffer entry of the prompt hook (fields message, type, timestamp)
\* counts as a question when type is 'question'
BufferConversation(message, type, now) ==
    [ message |-> message, type |-> type, timestamp |-> now ]

\* list.slice(-n)
SliceLast(list, n) ==
    IF Len(list) > n THEN SubSeq(list, Len(list) - n + 1, Len(list)) ELSE list

\* Array.from(new Set(list)): every member once, in the order of first
\* arrival
Unique(list) ==
    LET items  == SubSeq(list, 1, Len(list))
        firsts == SelectSeq([ i \in 1..Len(items) |-> i ],
                            LAMBDA i : \A j \in 1..(i - 1) : items[j] # items[i])
    IN  [ k \in 1..Len(firsts) |-> items[firsts[k]] ]

RECURSIVE JoinWith(_, _)
\* parts.join(sep)
JoinWith(parts, sep) ==
    IF parts = << >> THEN << >>
    ELSE IF Len(parts) = 1 THEN parts[1]
    ELSE parts[1] \o sep \o JoinWith(Tail(parts), sep)

RECURSIVE Digits(_)
\* String(n) for a count n
Digits(n) ==
    LET d == << "0", "1", "2", "3", "4", "5", "6", "7", "8", "9" >>
    IN  IF n < 10 THEN << d[n + 1] >> ELSE Append(Digits(n \div 10), d[(n % 10) + 1])

\* the characters of a tool name the observation hook records
Spell(tool) ==
    CASE tool = "Edit" -> << "E", "d", "i", "t" >>
      [] tool = "Write" -> << "W", "r", "i", "t", "e" >>
      [] tool = "Bash" -> << "B", "a", "s", "h" >>
      [] tool = "Task" -> << "T", "a", "s", "k" >>

\* path.basename(file) of a POSIX path
Basename(file) ==
    LET parts == SelectSeq(Split(file, "/"), LAMBDA part : part # << >>)
    IN  IF parts = << >> THEN << >> ELSE parts[Len(parts)]

\* what the request of generateAISummary meets: no API key in the
\* environment, or with a key a fetch that rejects ("rejected"), a status
\* that is not ok ("status"), a body without content[0].text ("malformed"),
\* or a body with the text `text` ("ok")
Remote(key, response, text) == [ key |-> key, response |-> response, text |-> text ]

\* "  " (a reply of spaces) and "Worked on the login flow."
TextBlank == << " ", " " >>

TextSummary == << "W", "o", "r", "k", "e", "d", " ", "o", "n", " ", "t", "h", "e", " ", "l",
        "o", "g", "i", "n", " ", "f", "l", "o", "w", "." >>

RemoteOutcomes ==
    { Remote(FALSE, "none", Null), Remote(TRUE, "rejected", Null),
      Remote(TRUE, "status", TextSummary), Remote(TRUE, "malformed", Null),
      Remote(TRUE, "ok", << >>), Remote(TRUE, "ok", TextBlank),
      Remote(TRUE, "ok", TextSummary) }

\* a bug generateAISummary could have: response.ok is not looked at, and
\* the text of an error body is returned
generateAISummaryAnyStatus(remote) ==
    IF ~ remote.key THEN Null
    ELSE IF remote.response \in { "ok", "status" } THEN Trim(remote.text)
    ELSE Null

\* generateAISummary(observations, conversations, project): the trimmed text
\* of the reply, or null without a key and on every error (lines 72-74,
\* 124-134)
generateAISummary(remote) ==
    IF ~ remote.key THEN Null
    ELSE IF remote.response = "ok" THEN Trim(remote.text)
    ELSE Null

\* generateLocalSummary(observations, conversations)
generateLocalSummary(observations, conversations) ==
    LET asked     == SelectSeq(conversations, LAMBDA c : c.type = "question")
        questions == [ i \in 1..Len(asked) |-> Slice(asked[i].message, 50) ]
        tools     == Unique([ i \in 1..Len(observations) |-> observations[i].tool ])
        CountOf(tool) ==
            Cardinality({ i \in 1..Len(observations) : observations[i].tool = tool })
        toolSummary ==
            JoinWith([ i \in 1..Len(tools) |->
                         Spell(tools[i]) \o << "(" >> \o Digits(CountOf(tools[i])) \o << ")" >> ],
                     << ",", " " >>)
        filed     == SelectSeq(observations, LAMBDA o : ~ Falsy(o.file))
        files     == Unique([ i \in 1..Len(filed) |-> Basename(filed[i].file) ])
        fileList  == JoinWith(Slice(files, 5), << ",", " " >>)
        moreFiles == IF Len(files) > 5
                     THEN << " ", "U+C678", " " >> \o Digits(Len(files) - 5) \o << "U+AC1C" >>
                             ELSE << >>
        ran       == SelectSeq(observations,
                               LAMBDA o : /\ o.tool = "Bash"
                                          /\ ~ Falsy(o.command)
                                          /\ Join(Split(o.command, " ")[1])
                                               \in { "git", "npm", "yarn", "pip", "docker" })
        commands  == [ i \in 1..Len(ran) |-> Slice(ran[i].command, 30) ]
        hasError  == \E i \in 1..Len(observations) : ~ observations[i].success
    IN  << "U+C791", "U+C5C5", ":", " " >> \o toolSummary
          \o (IF fileList # << >> THEN << " ", "|", " ", "U+D30C", "U+C77C", ":", " " >> \o
                  fileList \o moreFiles ELSE << >>)
          \o (IF Len(commands) > 0
              THEN << " ", "|", " ", "U+BA85", "U+B839", ":", " " >> \o
                      JoinWith(Slice(commands, 2), << ",", " " >>) ELSE << >>)
          \o (IF hasError THEN << " ", "|", " ", "U+26A0", " ", "U+C77C", "U+BD80", " ",
                  "U+C5D0", "U+B7EC", " ", "U+BC1C", "U+C0DD" >> ELSE << >>)
          \o (IF Len(questions) > 0
              THEN << " ", "|", " ", "U+1F4AC", " ", "U+C9C8", "U+BB38", ":", " ", "\"" >> \o questions[1] \o << "\"" >>
                     \o (IF Len(questions) > 1
                         THEN << " ", "U+C678", " " >> \o Digits(Len(questions) - 1) \o <<
                                 "U+AC1C" >> ELSE << >>)
              ELSE << >>)


\* extractSessionKeywords(observations, conversations) of the Stop hook: the
\* first SessionKeywords members of the Set of the tokens of every message,
\* summary, file path and command
extractBufferKeywords(observations, conversations) ==
    Slice(
        Unique(Flatten([ i \in 1..Len(conversations) |->
                           extractKeywords(conversations[i].message) ])
                 \o Flatten([ i \in 1..Len(observations) |->
                                extractKeywords(observations[i].summary)
                                  \o (IF Falsy(observations[i].file) THEN << >>
                                      ELSE extractPathKeywords(observations[i].file))
                                  \o (IF Falsy(observations[i].command) THEN << >>
                                      ELSE extractKeywords(observations[i].command)) ])),
        SessionKeywords)

\* the session pushed at lines 281-290
SavedSession(now, summary, summaryType, keywords, loaded) ==
    [ kind |-> "record", date |-> now, summary |-> summary,
      summary_type |-> summaryType,
      observation_count |-> Len(loaded.observations),
      conversation_count |-> Len(loaded.conversations),
      keywords |-> keywords,
      observations |-> Array(SliceLast(loaded.observations, SessionObservations)),
      conversations |-> Array(SliceLast(loaded.conversations, SessionConversations)) ]

\* memories/<project>.json holding the sessions and the keywords
Memories(sessions, keywords) ==
    [ kind |-> "json", sessions |-> sessions, keywords |-> keywords ]

\* loadMemories(project): the parsed file, or a new record if there is no
\* file or it does not parse
loadMemories(file) == IF file.kind = "json" THEN file ELSE Memories(<< >>, << >>)

\* a bug the Stop hook could have: the sessions are cut to the number the
\* buffer keeps of observations
RememberedLong(stored, session) ==
    Memories(SliceLast(Append(stored.sessions, session), MAX_OBSERVATIONS),
             SliceLast(Unique(stored.keywords \o session.keywords), MemoryKeywords))

\* lines 280-302: the memory file after the session is pushed
Remembered(stored, session) ==
    Memories(IF Len(stored.sessions) + 1 > MemorySessions
             THEN SliceLast(Append(stored.sessions, session), MemorySessions)
             ELSE Append(stored.sessions, session),
             SliceLast(Unique(stored.keywords \o session.keywords), MemoryKeywords))

\* a bug clearBuffer could have: the conversations are left in the file
clearBufferObservations(file) == Json(<< >>, loadBuffer(file).conversations)

\* clearBuffer(): the file holds { observations: [], session_start } and no
\* conversations field, which every reader takes for an empty list
clearBuffer(file) == Json(<< >>, << >>)

\* ------------------------------------------------------------------------
\* The prompt hook (summary-hook.js, lines 640-785): UserPromptSubmit
\* ------------------------------------------------------------------------

MAX_MESSAGE_LENGTH == 500

\* the conversations the buffer keeps (line 763)
MAX_CONVERSATIONS == 50

\* classifyMessage(message)
classifyMessage(message) ==
    LET lower == ToLowerCase(message)
        Has(sub) == Includes(lower, sub)
    IN  IF \/ Includes(message, << "?" >>)
           \/ Has(<< "U+BB50" >>) \/ Has(<< "U+C5B4", "U+B5BB", "U+AC8C" >>) \/ Has(<< "U+C65C" >>) \/ Has(<< "U+C5B8", "U+C81C" >>)
           \/ Has(<< "w", "h", "a", "t" >>) \/ Has(<< "h", "o", "w" >>) \/ Has(<< "w", "h", "y" >>) \/ Has(<< "w", "h", "e", "n" >>)
        THEN "question"
        ELSE IF \/ Has(<< "U+D574", "U+C918" >>) \/ Has(<< "U+D574", "U+C8FC", "U+C138", "U+C694" >>) \/ Has(<< "U+B9CC", "U+B4E4", "U+C5B4" >>) \/ Has(<< "U+C218", "U+C815" >>)
                \/ Has(<< "U+CD94", "U+AC00" >>) \/ Has(<< "U+C0AD", "U+C81C" >>)
                \/ Has(<< "p", "l", "e", "a", "s", "e" >>) \/ Has(<< "c", "r", "e", "a", "t", "e" >>) \/ Has(<< "f", "i", "x" >>) \/ Has(<< "a", "d", "d" >>)
                \/ Has(<< "u", "p", "d", "a", "t", "e" >>) \/ Has(<< "d", "e", "l", "e", "t", "e" >>)
        THEN "request"
        ELSE IF \/ Has(<< "U+C88B", "U+C544" >>) \/ Has(<< "U+B410", "U+C5B4" >>) \/ Has(<< "U+C544", "U+B2C8" >>) \/ Has(<< "U+B2E4", "U+C2DC" >>)
                \/ Has(<< "U+314B" >>) \/ Has(<< "U+314E" >>)
                \/ Has(<< "o", "k" >>) \/ Has(<< "g", "o", "o", "d" >>) \/ Has(<< "n", "o" >>) \/ Has(<< "w", "r", "o", "n", "g" >>)
        THEN "feedback"
        ELSE "statement"

\* the entry pushed at lines 752-760 for the prompt userMessage, made at
\* the minute `now`
Prompted(userMessage, now) ==
    BufferConversation(truncate(userMessage, MAX_MESSAGE_LENGTH),
                       classifyMessage(userMessage), now)

\* a bug the cap could have: the first MAX_CONVERSATIONS entries are kept
KeepEarliestConversations(conversations) ==
    Slice(conversations, MAX_CONVERSATIONS)

\* lines 763-765: conversations.slice(-50) once there are more than 50
KeepLatestConversations(conversations) ==
    IF Len(conversations) > MAX_CONVERSATIONS
    THEN SliceLast(conversations, MAX_CONVERSATIONS)
    ELSE conversations

\* "why does login fail?"
TextQuestion == << "w", "h", "y", " ", "d", "o", "e", "s", " ", "l", "o", "g", "i", "n", " ",
        "f", "a", "i", "l", "?" >>

\* the n-th prompt of ten words of three letters, all of them tokens and no
\* two alike
TextWords(n) ==
    Flatten([ i \in 1..10 |-> << "x", LowerSeq[n], LowerSeq[i], " " >> ])

\* hookData.prompt: nothing, spaces only, or a message
Prompts == { << >>, TextBlank, TextWhy, TextQuestion }

\* what a run of the prompt hook leaves: the buffer file it found and its
\* output, "success" with or without the field captured
PromptHookRun(before) ==
    [ name |-> "prompt", stdout |-> "success", ranking |-> << >>,
      relevant |-> << >>, tool |-> "none", before |-> before ]

\* main() of the prompt hook, run for a prompt; the run takes a minute
PromptHook ==
    /\ clock < Now0 + MaxTick
    /\ clock' = clock + 1
    /\ \E userMessage \in Prompts :
           LET loaded == loadBuffer(buffer)
           IN  IF Falsy(userMessage) \/ Len(Trim(userMessage)) = 0
               THEN UNCHANGED << buffer, written >>
               ELSE /\ buffer' =
                        Json(loaded.observations,
                             KeepLatestConversations(
                                 Append(loaded.conversations,
                                        Prompted(userMessage, clock))))
                    /\ written' =
                        [ written EXCEPT
                            !.conversations = @ \cup { Prompted(userMessage, clock) } ]
    /\ hook' = PromptHookRun(buffer)
    /\ UNCHANGED << context, corpus, ranked, args, result, memories, running >>

\* a buffer of n observations and m conversations about `message`, made a
\* minute apart by earlier runs of the two hooks
Captured(n, m, message) ==
    Json(Filled(n).observations,
         [ i \in 1..m |-> Prompted(message, Now0 - m - 1 + i) ])

\* a buffer of m conversations of ten words each
CapturedWords(m) ==
    Json(<< >>, [ i \in 1..m |-> Prompted(TextWords(i), Now0 - m - 1 + i) ])

\* the entries of a buffer file
EntriesOf(file) ==
    [ observations |-> ToSet(file.observations),
      conversations |-> ToSet(file.conversations) ]

\* before a run the buffer file is missing, cut short, empty, one short of
\* full, or full; the entries of a file that parses were written by earlier
\* runs
CaptureInit ==
    /\ clock = Now0
    /\ context = Context(CwdAuth)
    /\ corpus = Array(<< >>)
    /\ ranked = NotCalled
    /\ LibraryIdle
    /\ hook = NoHook
    /\ memories = NoMemories
    /\ running = NoneRunning
    /\ buffer \in { NoBuffer, [ NoBuffer EXCEPT !.kind = "corrupt" ],
                    Captured(0, 0, TextWhy),
                    Captured(MAX_OBSERVATIONS - 1, MAX_CONVERSATIONS - 1, TextWhy),
                    Captured(MAX_OBSERVATIONS, MAX_CONVERSATIONS, TextWhy) }
    /\ written = EntriesOf(loadBuffer(buffer))

\* the observation hook and the prompt hook run one at a time
CaptureNext == ObservationHook \/ PromptHook

CaptureSpec == CaptureInit /\ [][CaptureNext]_vars

\* ------------------------------------------------------------------------
\* The Stop hook and the prompt hook, run one at a time
\* ------------------------------------------------------------------------

\* what a run of the Stop hook leaves: the buffer file and the memory file
\* it found, what the request met, and its output: "nothing" is the message
\* 'No observations or conversations to summarize', "saved" the message
\* 'Saved session with ...'
SummaryHookRun(stdout, before, stored, remote) ==
    [ name |-> "summary", stdout |-> stdout, ranking |-> << >>,
      relevant |-> << >>, tool |-> "none", before |-> before, stored |-> stored,
      remote |-> remote ]

\* summary and summaryType of lines 263-274
Summarised(loaded, remote) ==
    LET aiSummary == generateAISummary(remote)
    IN  IF ~ Falsy(aiSummary)
        THEN [ summary |-> aiSummary, summaryType |-> "ai" ]
        ELSE [ summary |-> generateLocalSummary(loaded.observations,
                                                loaded.conversations),
               summaryType |-> "local" ]

\* a memory file of n sessions and k keywords that earlier runs of the Stop
\* hook saved, an hour apart
Stored(n, k) ==
    LET loaded  == Captured(1, 1, TextQuestion)
        summary == Summarised(loaded, Remote(FALSE, "none", Null))
    IN  Memories([ i \in 1..n |->
                     SavedSession(Now0 - 60 * (n + 1 - i), summary.summary,
                                  summary.summaryType,
                                  extractBufferKeywords(loaded.observations,
                                                        loaded.conversations),
                                  loaded) ],
                 [ i \in 1..k |->
                     Join(<< "y", LowerSeq[((i - 1) \div 26) + 1],
                             LowerSeq[((i - 1) % 26) + 1] >>) ])

\* main() of the Stop hook; the run takes a minute
SummaryHook ==
    /\ clock < Now0 + MaxTick
    /\ clock' = clock + 1
    /\ LET loaded   == loadBuffer(buffer)
           stored   == loadMemories(memories)
           keywords == extractBufferKeywords(loaded.observations, loaded.conversations)
       IN  IF Len(loaded.observations) = 0 /\ Len(loaded.conversations) = 0
           THEN /\ \E remote \in RemoteOutcomes :
                       hook' = SummaryHookRun("nothing", buffer, memories, remote)
                /\ UNCHANGED << buffer, memories >>
           ELSE \E remote \in RemoteOutcomes :
                    LET summary == Summarised(loaded, remote)
                    IN  /\ memories' =
                             Remembered(stored,
                                        SavedSession(clock, summary.summary,
                                                     summary.summaryType, keywords,
                                                     loaded))
                        /\ buffer' = clearBuffer(buffer)
                        /\ hook' = SummaryHookRun("saved", buffer, memories, remote)
    /\ UNCHANGED << context, corpus, ranked, args, result, running, written >>

\* before a run the buffer file is missing, cut short, empty, or holds
\* entries up to one more than a session keeps; the memory file is missing,
\* cut short, one short of full, or full
SessionInit ==
    /\ clock = Now0
    /\ context = Context(CwdAuth)
    /\ corpus = Array(<< >>)
    /\ ranked = NotCalled
    /\ LibraryIdle
    /\ hook = NoHook
    /\ running = NoneRunning
    /\ buffer \in { NoBuffer, [ NoBuffer EXCEPT !.kind = "corrupt" ],
                    Captured(0, 0, TextWhy), Captured(1, 0, TextWhy),
                    CapturedWords(6),
                    Captured(SessionObservations + 1, SessionConversations + 1,
                             TextQuestion) }
    /\ memories \in { NoMemories, [ NoMemories EXCEPT !.kind = "corrupt" ],
                      Stored(MemorySessions - 1, MemoryKeywords - 1),
                      Stored(MemorySessions, MemoryKeywords) }
    /\ written = EntriesOf(loadBuffer(buffer))

SessionNext == SummaryHook \/ PromptHook

SessionSpec == SessionInit /\ [][SessionNext]_vars

\* ------------------------------------------------------------------------
\* Properties of the hooks that write the buffer and the memory
\* ------------------------------------------------------------------------

\* the last hook run was the Stop hook
SummaryHookRan == hook.name = "summary"

\* the buffer and the memory the last Stop hook run loaded
FoundBuffer == loadBuffer(hook.before)

FoundMemories == loadMemories(hook.stored)

\* the buffer the Stop hook found held an observation or a conversation
FoundEntries ==
    Len(FoundBuffer.observations) > 0 \/ Len(FoundBuffer.conversations) > 0

\* the buffer file holds no observation and no conversation
BufferEmpty ==
    /\ buffer.kind = "json"
    /\ Len(buffer.observations) = 0
    /\ Len(buffer.conversations) = 0

\* short is the last Len(short) members of long
IsSuffix(short, long) ==
    /\ Len(short) <= Len(long)
    /\ short = SubSeq(long, Len(long) - Len(short) + 1, Len(long))

LeastOf(a, b) == IF a < b THEN a ELSE b

LastSession == memories.sessions[Len(memories.sessions)]

\* the request of the last Stop hook run had a key and was answered with a
\* text that is not empty once trimmed
RemoteSummarised ==
    /\ hook.remote.key
    /\ hook.remote.response = "ok"
    /\ ~ Falsy(hook.remote.text)
    /\ Trim(hook.remote.text) # << >>

\* C22: a run of the Stop hook that found an observation or a conversation
\* saves a session whatever the request for a remote summary met; the
\* session has summary_type 'ai' and the trimmed text of the reply as its
\* summary exactly if an API key is set and the request was answered with a
\* text that is not empty, and summary_type 'local' and the local summary
\* of the buffer in every other case.
SummaryChoice ==
    SummaryHookRan /\ FoundEntries =>
        /\ hook.stdout = "saved"
        /\ memories.kind = "json"
        /\ Len(memories.sessions) > 0
        /\ LastSession.date = clock - 1
        /\ LastSession.summary_type \in { "ai", "local" }
        /\ LastSession.summary_type = "ai" <=> RemoteSummarised
        /\ LastSession.summary_type = "ai" =>
               LastSession.summary = Trim(hook.remote.text)
        /\ LastSession.summary_type = "local" =>
               LastSession.summary
                 = generateLocalSummary(FoundBuffer.observations,
                                        FoundBuffer.conversations)

\* with a key set, the request failed or brought no text, and the Stop hook
\* has saved a session with the local summary
SummaryChoiceWitness ==
    /\ SummaryHookRan
    /\ FoundEntries
    /\ hook.remote.key
    /\ ~ RemoteSummarised
    /\ hook.stdout = "saved"
    /\ LastSession.summary_type = "local"
    /\ Len(LastSession.summary) > 0

\* the members of list are in the order of their timestamps, no two at the
\* same minute
InArrivalOrder(list) ==
    \A i \in 1..(Len(list) - 1) : list[i].timestamp < list[i + 1].timestamp

\* list holds at most cap of the entries `saved`, and every saved entry it
\* does not hold is older than all it holds, while it holds cap entries
KeepsMostRecent(list, saved, cap) ==
    /\ Len(list) <= cap
    /\ InArrivalOrder(list)
    /\ ToSet(list) \subseteq saved
    /\ \A e \in saved \ ToSet(list) :
           /\ Len(list) = cap
           /\ \A i \in 1..Len(list) : e.timestamp < list[i].timestamp

\* C23: whatever runs of the observation hook and of the prompt hook came
\* one after the other, the buffer holds at most 100 observations and at
\* most 50 conversations, each list in the order of arrival, and an entry
\* that was saved and is no longer held is older than every entry held,
\* in a list that is full.
BufferCaps ==
    /\ KeepsMostRecent(buffer.observations, written.observations, MAX_OBSERVATIONS)
    /\ KeepsMostRecent(buffer.conversations, written.conversations, MAX_CONVERSATIONS)

\* both caps were hit: one observation and one conversation were dropped
BufferCapsWitness ==
    /\ Len(buffer.observations) = MAX_OBSERVATIONS
    /\ Len(buffer.conversations) = MAX_CONVERSATIONS
    /\ Cardinality(written.observations) > MAX_OBSERVATIONS
    /\ Cardinality(written.conversations) > MAX_CONVERSATIONS

\* C24: whatever runs of the Stop hook came one after the other, the memory
\* holds at most 50 sessions, oldest first, and after a run on a full
\* memory they are the new session and the latest 49 of before; every
\* saved session holds at most 20 observations, 30 conversations and 50
\* keywords; and the keyword list of the project holds at most 200
\* keywords.
MemoryCaps ==
    /\ Len(memories.sessions) <= MemorySessions
    /\ \A i \in 1..(Len(memories.sessions) - 1) :
           memories.sessions[i].date < memories.sessions[i + 1].date
    /\ \A i \in 1..Len(memories.sessions) :
           /\ Len(memories.sessions[i].observations.items) <= SessionObservations
           /\ Len(memories.sessions[i].conversations.items) <= SessionConversations
           /\ Len(memories.sessions[i].keywords) <= SessionKeywords
    /\ Len(memories.keywords) <= MemoryKeywords
    /\ SummaryHookRan /\ FoundEntries =>
           \A s \in ToSet(FoundMemories.sessions) \ ToSet(memories.sessions) :
               /\ Len(memories.sessions) = MemorySessions
               /\ \A i \in 1..Len(memories.sessions) : s.date < memories.sessions[i].date

\* the Stop hook has run on a full memory and on a buffer of more than 50
\* tokens: the oldest session is gone, the new session holds 50 keywords
\* and the keyword list 200
MemoryCapsWitness ==
    /\ SummaryHookRan
    /\ hook.stdout = "saved"
    /\ Len(FoundMemories.sessions) = MemorySessions
    /\ FoundMemories.sessions[1] \notin ToSet(memories.sessions)
    /\ Len(memories.sessions) = MemorySessions
    /\ Len(LastSession.keywords) = SessionKeywords
    /\ Len(memories.keywords) = MemoryKeywords
    /\ FoundMemories.keywords[1] \notin ToSet(memories.keywords)

\* ------------------------------------------------------------------------
\* The hooks as concurrent processes: each run is its own node process,
\* and nothing orders the file reads and writes of two runs
\* ------------------------------------------------------------------------

\* how many hook processes run
MaxHooks == 2

\* a process that has not started; a started one keeps the script it runs,
\* where it is ("loaded": it has read buffer.json; "saved": the Stop hook
\* has written the memory file; "done": it has exited), the buffer it read
\* and the entry it pushes
Idle == [ script |-> "none", pc |-> "idle", loaded |-> NoBuffer, entry |-> << >> ]

Started(script, pc, loaded, entry) ==
    [ script |-> script, pc |-> pc, loaded |-> loaded, entry |-> entry ]

\* the buffer file holds an observation and a conversation, or is missing
ConcurrentInit ==
    /\ clock = Now0
    /\ context = Context(CwdAuth)
    /\ corpus = Array(<< >>)
    /\ ranked = NotCalled
    /\ LibraryIdle
    /\ hook = NoHook
    /\ memories = NoMemories
    /\ buffer \in { NoBuffer, Captured(1, 1, TextWhy) }
    /\ written = EntriesOf(loadBuffer(buffer))
    /\ running = [ p \in 1..MaxHooks |-> Idle ]

\* observation hook, lines 590-615: a process starts for a tool use, and for
\* a tool it records it reads the buffer file and pushes the observation
\* onto what it read; for another tool it reports success and exits
ObservationLoad(p) ==
    /\ running[p].pc = "idle"
    /\ \E tool \in { "Edit", "Read" } :
           LET hookData    == HookData(tool, Null, Null)
               observation == formatObservation(hookData)
           IN  running' =
                 [ running EXCEPT ![p] =
                     IF observation.kind = "null"
                     THEN Started("observation", "done", NoBuffer, << >>)
                     ELSE Started("observation", "loaded", loadBuffer(buffer),
                                  Pushed(observation, hookData, clock)) ]
    /\ clock' = clock + 1
    /\ UNCHANGED << context, corpus, ranked, args, result, hook, buffer, memories,
                    written >>

\* observation hook, lines 617-627: it cuts the list, writes the buffer
\* file, reports success and exits
ObservationSave(p) ==
    /\ running[p].script = "observation"
    /\ running[p].pc = "loaded"
    /\ buffer' = Json(KeepLatest(Append(running[p].loaded.observations,
                                        running[p].entry)),
                      running[p].loaded.conversations)
    /\ written' = [ written EXCEPT !.observations = @ \cup { running[p].entry } ]
    /\ running' = [ running EXCEPT ![p].pc = "done" ]
    /\ UNCHANGED << clock, context, corpus, ranked, args, result, hook, memories >>

\* prompt hook, lines 728-760: a process starts for a prompt, reads the
\* buffer file and pushes the conversation onto what it read
PromptLoad(p) ==
    /\ running[p].pc = "idle"
    /\ running' = [ running EXCEPT ![p] =
                      Started("prompt", "loaded", loadBuffer(buffer),
                              Prompted(TextQuestion, clock)) ]
    /\ clock' = clock + 1
    /\ UNCHANGED << context, corpus, ranked, args, result, hook, buffer, memories,
                    written >>

\* prompt hook, lines 762-777: it cuts the list, writes the buffer file,
\* reports success and exits
PromptSave(p) ==
    /\ running[p].script = "prompt"
    /\ running[p].pc = "loaded"
    /\ buffer' = Json(running[p].loaded.observations,
                      KeepLatestConversations(Append(running[p].loaded.conversations,
                                                     running[p].entry)))
    /\ written' = [ written EXCEPT !.conversations = @ \cup { running[p].entry } ]
    /\ running' = [ running EXCEPT ![p].pc = "done" ]
    /\ UNCHANGED << clock, context, corpus, ranked, args, result, hook, memories >>

\* Stop hook, lines 245-267: a process starts, reads the buffer file, exits
\* if it holds no entry and else sends the request for a summary
SummaryLoad(p) ==
    /\ running[p].pc = "idle"
    /\ LET loaded == loadBuffer(buffer)
       IN  running' =
             [ running EXCEPT ![p] =
                 IF Len(loaded.observations) = 0 /\ Len(loaded.conversations) = 0
                 THEN Started("summary", "done", loaded, << >>)
                 ELSE Started("summary", "loaded", loaded, << >>) ]
    /\ clock' = clock + 1
    /\ UNCHANGED << context, corpus, ranked, args, result, hook, buffer, memories,
                    written >>

\* Stop hook, lines 267-302: the request has settled, and the session made
\* of the buffer the process read is pushed and the memory file written
SummarySave(p) ==
    /\ running[p].script = "summary"
    /\ running[p].pc = "loaded"
    /\ \E remote \in { Remote(FALSE, "none", Null), Remote(TRUE, "ok", TextSummary) } :
           LET loaded  == running[p].loaded
               summary == Summarised(loaded, remote)
           IN  memories' =
                 Remembered(loadMemories(memories),
                            SavedSession(clock, summary.summary, summary.summaryType,
                                         extractBufferKeywords(loaded.observations,
                                                               loaded.conversations),
                                         loaded))
    /\ running' = [ running EXCEPT ![p].pc = "saved" ]
    /\ UNCHANGED << clock, context, corpus, ranked, args, result, hook, buffer, written >>

\* Stop hook, lines 304-314: clearBuffer() overwrites the buffer file, the
\* process reports and exits
SummaryClear(p) ==
    /\ running[p].script = "summary"
    /\ running[p].pc = "saved"
    /\ buffer' = clearBuffer(buffer)
    /\ running' = [ running EXCEPT ![p].pc = "done" ]
    /\ UNCHANGED << clock, context, corpus, ranked, args, result, hook, memories,
                    written >>

ConcurrentNext ==
    \E p \in 1..MaxHooks :
        \/ ObservationLoad(p) \/ ObservationSave(p)
        \/ PromptLoad(p) \/ PromptSave(p)
        \/ SummaryLoad(p) \/ SummarySave(p) \/ SummaryClear(p)

ConcurrentSpec == ConcurrentInit /\ [][ConcurrentNext]_vars

\* every process has exited or has not started
AllExited == \A p \in 1..MaxHooks : running[p].pc \in { "idle", "done" }

\* C25: once every process has exited, and none of them was the Stop hook,
\* each observation and each conversation a hook saved before it reported
\* success is in the buffer file (the buffer is far below its caps).
NoLostUpdate ==
    AllExited /\ (\A p \in 1..MaxHooks : running[p].script # "summary") =>
        /\ written.observations \subseteq ToSet(loadBuffer(buffer).observations)
        /\ written.conversations \subseteq ToSet(loadBuffer(buffer).conversations)

\* the entries the saved sessions hold
Remembers(entry) ==
    \E i \in 1..Len(memories.sessions) :
        \/ entry \in ToSet(memories.sessions[i].observations.items)
        \/ entry \in ToSet(memories.sessions[i].conversations.items)

\* C26: when the Stop hook overwrites the buffer file, every observation
\* and every conversation the file holds at that moment is in a saved
\* session (the buffer is far below the 20 and 30 a session keeps).
NothingDiscarded ==
    [][ \A p \in 1..MaxHooks :
            running[p].pc = "saved" /\ running'[p].pc = "done" =>
                /\ \A e \in ToSet(loadBuffer(buffer).observations) : Remembers(e)
                /\ \A e \in ToSet(loadBuffer(buffer).conversations) : Remembers(e) ]_vars


\* C27 (as claimed): for every session with a parseable timestamp, also one
\* stamped later than the clock of the call, the reported timeWeight lies in
\* (0.5, 1] when the session is less than 24 hours old and in
\* (0, exp(-1/14)] otherwise.
TimeWeightRange ==
    ReturnedCall =>
        \A i \in Entries :
            LET e == ranked.list[i]
            IN  e.session.date # NaN =>
                  IF AgeOf(e) < DayMinutes
                  THEN e.timeWeight > SCALE \div 2 /\ e.timeWeight <= SCALE
                  ELSE e.timeWeight > 0 /\ e.timeWeight <= (931 * SCALE) \div 1000

=============================================================================
